---- MODULE Spec2Model ----
(***************************************************************************)
(* SmartSpend AI: the receipt scan pipeline (scanReceiptFlow, two model    *)
(* calls in sequence) and its caller, the receipt scan modal (handleScan,  *)
(* handleConfirmScan, handleFileChange, clearSelection); the canvas size   *)
(* computed by resizeAndCompressImage; the expense form's category cache   *)
(* (getCachedCategory, setCachedCategory, handleSuggestCategory).          *)
(*                                                                         *)
(* Spec is the modal with the user's actions interleaved, SpecScan one scan*)
(* after another with every response of the model calls, SpecPair two      *)
(* invocations of scanReceipt side by side, SpecResize the canvas size,    *)
(* SpecCategory the category suggestion of one form, SpecCache two tabs    *)
(* writing the category cache, SpecExpenses the Expenses page and its      *)
(* writes, SpecBudget the dashboard's budget card, SpecShopping the        *)
(* shopping list, SpecSearch the debounced past-purchase search, SpecAuth  *)
(* the auth provider with the two layouts, SpecDashboard the dashboard's   *)
(* totals.                                                                 *)
(*                                                                         *)
(* Texts are TLA+ strings; includes() and toLowerCase() are computed on    *)
(* their characters.  A nullable value is <<>> (null) or <<v>>.            *)
(***************************************************************************)
EXTENDS Integers, Sequences, FiniteSets, TLC

\* ------------------------------------------------------------------ bounds

\* The most expense documents the store holds; handleConfirmScan is not
\* started when its items would not fit.
MaxExpenses == 2

\* ------------------------------------------------------------ JS helpers

Null == <<>>
Some(v) == <<v>>

\* String.prototype.includes
Includes(s, sub) ==
    \E i \in 1..(Len(s) - Len(sub) + 1) : SubSeq(s, i, i + Len(sub) - 1) = sub

UpperChars == "ABCDEFGHIJKLMNOPQRSTUVWXYZ"
LowerChars == "abcdefghijklmnopqrstuvwxyz"

LowerChar(c) ==
    IF \E i \in 1..Len(UpperChars) : SubSeq(UpperChars, i, i) = c
    THEN LET i == CHOOSE j \in 1..Len(UpperChars) : SubSeq(UpperChars, j, j) = c
         IN  SubSeq(LowerChars, i, i)
    ELSE c

\* String.prototype.toLowerCase
RECURSIVE toLowerCase(_)
toLowerCase(s) ==
    IF Len(s) = 0 THEN ""
    ELSE LowerChar(SubSeq(s, 1, 1)) \o toLowerCase(SubSeq(s, 2, Len(s)))

\* String(v) of an error field: a string is itself, an Error object is
\* "Error: " + message ("Error" when the message is empty).
ErrStr(text) == [type |-> "string", text |-> text]
ErrObj(message) == [type |-> "Error", text |-> message]
String(v) ==
    IF v.type = "string" THEN v.text
    ELSE IF v.text = "" THEN "Error" ELSE "Error: " \o v.text

\* ------------------------------------------------- the flow's error texts

MsgStep1Unavailable ==
    "The AI service is currently overloaded or unavailable. Please try again in a few moments."
MsgStep1Failed ==
    "AI processing failed during receipt content extraction. Please check server logs or try again."
MsgStep1ReportedOverloaded ==
    "The AI service reported it is overloaded while extracting content. Please try again later."
MsgStep1ErrorPrefix ==
    "AI failed to extract content from the receipt image. Error: "
MsgStep1NoContent ==
    "AI flow failed at raw content extraction step: No content produced. Check server logs for details."
MsgStep2Unavailable ==
    "The AI service is currently overloaded or unavailable while structuring data. Please try again in a few moments."
MsgStep2Failed ==
    "AI processing failed during receipt data structuring. Please check server logs or try again."
MsgStep2ReportedOverloaded ==
    "The AI service reported it is overloaded while structuring data. Please try again later."
MsgStep2ErrorPrefix ==
    "AI failed to structure the extracted receipt content. Error: "
MsgStep2NoData ==
    "AI flow failed at structured data extraction step: No structured data produced. Check server logs for details."
MsgUnknown == "An unknown error occurred during AI processing."

\* ------------------------------------------------ what a model call yields

\* A prompt call either throws e (e.message may be empty or undefined) or
\* returns a response object with an output (null when absent) and, possibly,
\* an error field.
Thrown(message) ==
    [kind |-> "throw", message |-> message, output |-> Null, error |-> Null]
Returned(output, error) ==
    [kind |-> "result", message |-> "", output |-> output, error |-> error]

\* JavaScript truthiness of an error field: null, undefined and "" are falsy,
\* every object is truthy.
Truthy(error) ==
    /\ error # Null
    /\ ~(error[1].type = "string" /\ error[1].text = "")

\* e.message || "An unknown error occurred during AI processing."
MessageOrUnknown(message) == IF message = "" THEN MsgUnknown ELSE message

\* ------------------------------------------------------- scanReceiptFlow

FlowThrow(message) == [next |-> "throw", message |-> message, rawContent |-> "", value |-> Null]
FlowStep2(rawContent) == [next |-> "step2", message |-> "", rawContent |-> rawContent, value |-> Null]
FlowReturn(value) == [next |-> "return", message |-> "", rawContent |-> "", value |-> Some(value)]

\* Step1CatchError without the "model is overloaded" test.
Step1CatchErrorOnly503(message) ==
    LET errorMessage == MessageOrUnknown(message)
    IN  IF \/ Includes(errorMessage, "503")
           \/ Includes(toLowerCase(errorMessage), "service unavailable")
        THEN MsgStep1Unavailable
        ELSE MsgStep1Failed

\* catch of Step 1: the thrown error re-raised as one of two fixed messages.
Step1CatchError(message) ==
    LET errorMessage == MessageOrUnknown(message)
    IN  IF \/ Includes(errorMessage, "503")
           \/ Includes(toLowerCase(errorMessage), "model is overloaded")
           \/ Includes(toLowerCase(errorMessage), "service unavailable")
        THEN MsgStep1Unavailable
        ELSE MsgStep1Failed

\* Step 1 returned without rawContent and with an error field.
Step1NoOutputError(error) ==
    LET step1ErrorMessage == String(error)
    IN  IF \/ Includes(step1ErrorMessage, "503")
           \/ Includes(toLowerCase(step1ErrorMessage), "model is overloaded")
           \/ Includes(toLowerCase(step1ErrorMessage), "service unavailable")
        THEN MsgStep1ReportedOverloaded
        ELSE MsgStep1ErrorPrefix \o step1ErrorMessage

\* catch of Step 2.
Step2CatchError(message) ==
    LET errorMessage == MessageOrUnknown(message)
    IN  IF \/ Includes(errorMessage, "503")
           \/ Includes(toLowerCase(errorMessage), "model is overloaded")
           \/ Includes(toLowerCase(errorMessage), "service unavailable")
        THEN MsgStep2Unavailable
        ELSE MsgStep2Failed

\* Step2NoOutputError matching the markers without toLowerCase.
Step2NoOutputErrorCaseSensitive(error) ==
    LET step2ErrorMessage == String(error)
    IN  IF \/ Includes(step2ErrorMessage, "503")
           \/ Includes(step2ErrorMessage, "model is overloaded")
           \/ Includes(step2ErrorMessage, "service unavailable")
        THEN MsgStep2ReportedOverloaded
        ELSE MsgStep2ErrorPrefix \o step2ErrorMessage

\* Step2NoOutputError raising the fixed message of the catch instead of
\* appending the error text.
Step2NoOutputErrorHidden(error) ==
    LET step2ErrorMessage == String(error)
    IN  IF \/ Includes(step2ErrorMessage, "503")
           \/ Includes(toLowerCase(step2ErrorMessage), "model is overloaded")
           \/ Includes(toLowerCase(step2ErrorMessage), "service unavailable")
        THEN MsgStep2ReportedOverloaded
        ELSE MsgStep2Failed

\* Step 2 returned without an output and with an error field.
Step2NoOutputError(error) ==
    LET step2ErrorMessage == String(error)
    IN  IF \/ Includes(step2ErrorMessage, "503")
           \/ Includes(toLowerCase(step2ErrorMessage), "model is overloaded")
           \/ Includes(toLowerCase(step2ErrorMessage), "service unavailable")
        THEN MsgStep2ReportedOverloaded
        ELSE MsgStep2ErrorPrefix \o step2ErrorMessage

\* AfterStep1 handing Step 2 a normalised copy of the transcription.
AfterStep1Lowercased(r) ==
    IF r.kind = "throw" THEN FlowThrow(Step1CatchError(r.message))
    ELSE IF r.output = Null \/ r.output[1].rawContent = ""
    THEN IF Truthy(r.error)
         THEN FlowThrow(Step1NoOutputError(r.error[1]))
         ELSE FlowThrow(MsgStep1NoContent)
    ELSE FlowStep2(toLowerCase(r.output[1].rawContent))

\* AfterStep1 testing only that there is an output, not that rawContent is
\* non-empty.
AfterStep1NoEmptyCheck(r) ==
    IF r.kind = "throw" THEN FlowThrow(Step1CatchError(r.message))
    ELSE IF r.output = Null
    THEN IF Truthy(r.error)
         THEN FlowThrow(Step1NoOutputError(r.error[1]))
         ELSE FlowThrow(MsgStep1NoContent)
    ELSE FlowStep2(r.output[1].rawContent)

\* The handler from the return of extractRawContentPrompt up to the call of
\* structureScannedTextPrompt (or the throw that ends the flow).
AfterStep1(r) ==
    IF r.kind = "throw" THEN FlowThrow(Step1CatchError(r.message))
    ELSE IF r.output = Null \/ r.output[1].rawContent = ""
    THEN IF Truthy(r.error)
         THEN FlowThrow(Step1NoOutputError(r.error[1]))
         ELSE FlowThrow(MsgStep1NoContent)
    ELSE FlowStep2(r.output[1].rawContent)

\* AfterStep2 answering a missing output with an empty receipt.
AfterStep2EmptyReceipt(r) ==
    IF r.kind = "throw" THEN FlowThrow(Step2CatchError(r.message))
    ELSE IF r.output = Null
    THEN IF Truthy(r.error)
         THEN FlowThrow(Step2NoOutputError(r.error[1]))
         ELSE FlowReturn([storeName |-> "", items |-> <<>>, total |-> 0])
    ELSE FlowReturn(r.output[1])

\* The sum of the items' totalItemPrice.
RECURSIVE SumOfItems(_)
SumOfItems(items) ==
    IF Len(items) = 0 THEN 0
    ELSE items[1].totalItemPrice + SumOfItems(SubSeq(items, 2, Len(items)))

\* AfterStep2 reconciling the receipt: the total replaced by the sum of the
\* items when the two differ.
AfterStep2Reconciled(r) ==
    IF r.kind = "throw" THEN FlowThrow(Step2CatchError(r.message))
    ELSE IF r.output = Null
    THEN IF Truthy(r.error)
         THEN FlowThrow(Step2NoOutputError(r.error[1]))
         ELSE FlowThrow(MsgStep2NoData)
    ELSE FlowReturn([r.output[1] EXCEPT !.total = SumOfItems(r.output[1].items)])

\* The handler from the return of structureScannedTextPrompt to its end.
AfterStep2(r) ==
    IF r.kind = "throw" THEN FlowThrow(Step2CatchError(r.message))
    ELSE IF r.output = Null
    THEN IF Truthy(r.error)
         THEN FlowThrow(Step2NoOutputError(r.error[1]))
         ELSE FlowThrow(MsgStep2NoData)
    ELSE FlowReturn(r.output[1])

\* --------------------------------------------------- inputs of the model

\* Failure texts a hosted call may carry.
ErrorTexts ==
    { "Request failed with status 503",
      "The model is overloaded. Please try again later.",
      "Model Is Overloaded",
      "Service Unavailable",
      "Server overloaded",
      "Backend unavailable",
      "Quota exceeded",
      "" }

ErrorFields ==
    {Null} \cup {Some(ErrStr(t)) : t \in ErrorTexts}
           \cup {Some(ErrObj(t)) : t \in {"Service Unavailable", "Quota exceeded", ""}}

\* Transcriptions Step 1 may return ("" is an empty transcription).
RawTexts == {"", "SODA $2.00 TOTAL $2.00", "1 Plate $9.10 CHOW MEIN BROCCOLI BEEF"}

Step1Responses ==
    {Thrown(t) : t \in ErrorTexts}
    \cup {Returned(Null, e) : e \in ErrorFields}
    \cup {Returned(Some([rawContent |-> c]), e) : c \in RawTexts, e \in {Null, Some(ErrStr("Quota exceeded"))}}

\* Structured receipts Step 2 may return; amounts are in cents.
PayloadSoda ==
    [storeName |-> "Corner Shop",
     items |-> << [name |-> "SODA", quantity |-> 1, unitPrice |-> 200,
                   totalItemPrice |-> 200, brand |-> "", category |-> "Drink"] >>,
     total |-> 200]
PayloadPlate ==
    [storeName |-> "Panda",
     items |-> << [name |-> "Plate (Chow Mein, Broccoli Beef)", quantity |-> 1,
                   unitPrice |-> 910, totalItemPrice |-> 910, brand |-> "",
                   category |-> "Food"],
                  [name |-> "SODA", quantity |-> 2, unitPrice |-> 200,
                   totalItemPrice |-> 400, brand |-> "Pepsi", category |-> ""] >>,
     total |-> 1200]
\* A receipt of a return: z.number() admits every number, also a negative
\* total and a quantity below 1.
PayloadRefund ==
    [storeName |-> "Corner Shop",
     items |-> << [name |-> "SODA RETURN", quantity |-> -1, unitPrice |-> 200,
                   totalItemPrice |-> -200, brand |-> "", category |-> "Drink"] >>,
     total |-> -200]
Payloads == {PayloadSoda, PayloadPlate, PayloadRefund}

Step2Responses ==
    {Thrown(t) : t \in ErrorTexts}
    \cup {Returned(Null, e) : e \in ErrorFields}
    \cup {Returned(Some(p), Null) : p \in Payloads}

\* One response of each kind, for the runs that interleave the user's actions
\* with the scan.
Step1Outcomes ==
    { Thrown("Service Unavailable"),
      Returned(Null, Some(ErrStr("Quota exceeded"))),
      Returned(Some([rawContent |-> "SODA $2.00 TOTAL $2.00"]), Null) }
Step2Outcomes ==
    { Thrown("Quota exceeded"),
      Returned(Null, Null),
      Returned(Some(PayloadPlate), Null) }

Files == {"a.jpg", "b.png"}
Users == {"u1"}

\* The data URI resizeAndCompressImage resolves with: the re-encoded JPEG, or
\* the original file read as it is.
DataUri(file, how) == "data:" \o how \o ":" \o file

\* ------------------------------------------------------------------ state

VARIABLES
    modalOpen,                \* isReceiptModalOpen of the page
    user,                     \* useAuth().user: null or a uid
    selectedFile, previewUrl, isScanning, scanResult, error,
    processedReceiptDataUri,  \* the modal's state
    toast,                    \* the toast the last step raised, or null
    expenses,                 \* the documents of the "expenses" collection
    scanPc,                   \* where handleScan is: idle, resize, step1, step2, settle
    scanFile,                 \* the file handleScan was started with
    inFlight,                 \* the model calls that were issued and have not returned
    step1Calls, step2Calls,   \* calls issued by the current invocation of the flow
    step1Response,            \* what Step 1 yielded, or null
    step2Input,               \* rawReceiptText handed to Step 2, or null
    step2Response,            \* what Step 2 yielded, or null
    flowOutcome,              \* how scanReceipt ended (throw / return), or null
    confirmPc,                \* where handleConfirmScan is: idle, saving
    expensesToSave, saveIdx,  \* its list and the index of the addDoc awaited
    lastEvent,                \* the handler step taken last
    calls,                    \* the invocations of scanReceipt made side by side
    img,                      \* the image resizeAndCompressImage loaded and its canvas size
    cache,                    \* localStorage['smartspend-category-cache'], parsed
    catForm,                  \* the expense form: its name and category fields, isCategorizing
    writers,                  \* setCachedCategory as run by each open tab
    lastWritten,              \* per key, the category of the last write-back made for it
    expPage,                  \* the Expenses page: user, list, form and the write it awaits
    docs,                     \* the "expenses" collection as the Expenses page's queries see it
    budget,                   \* the dashboard's budget card and userPreferences document
    shop,                     \* the shopping-list page: its collection, snapshot and AI call
    search,                   \* the past-purchase search next to the item-name input
    auth,                     \* AuthProvider's user and loading, and the route shown
    dash                      \* the expenses the dashboard aggregates, and both results

modalVars == <<selectedFile, previewUrl, isScanning, scanResult, error, processedReceiptDataUri>>
flowVars == <<inFlight, step1Calls, step2Calls, step1Response, step2Input, step2Response, flowOutcome>>
scanVars == <<scanPc, scanFile>>
confirmVars == <<confirmPc, expensesToSave, saveIdx>>
appVars == <<modalOpen, user, modalVars, toast, expenses, scanVars, flowVars, confirmVars, lastEvent>>
featureVars == <<calls, img, cache, catForm, writers, lastWritten>>
pageVars == <<expPage, docs, budget, shop, search, auth, dash>>
otherVars == <<featureVars, pageVars>>
vars == <<appVars, otherVars>>

\* Server-side invocations of scanReceipt: each holds what the handler's own
\* locals hold (input, rawContentOutput, finalOutput) and how it ended.
Invocations == {1, 2}
NoCall ==
    [pc |-> "idle", input |-> Null, step1Response |-> Null, step2Input |-> Null,
     step2Response |-> Null, outcome |-> Null]

\* The page before anything was done.
AppStart ==
    /\ modalOpen = FALSE
    /\ user \in {Null} \cup {Some(u) : u \in Users}
    /\ selectedFile = Null /\ previewUrl = Null
    /\ isScanning = FALSE /\ scanResult = Null /\ error = Null
    /\ processedReceiptDataUri = Null
    /\ toast = Null
    /\ expenses = <<>>
    /\ scanPc = "idle" /\ scanFile = Null
    /\ inFlight = {} /\ step1Calls = 0 /\ step2Calls = 0
    /\ step1Response = Null /\ step2Input = Null /\ step2Response = Null
    /\ flowOutcome = Null
    /\ confirmPc = "idle" /\ expensesToSave = <<>> /\ saveIdx = 0
    /\ lastEvent = "init"

\* No image loaded.
NoImage == [pc |-> "none", width |-> 0, height |-> 0, canvasWidth |-> 0, canvasHeight |-> 0]

\* The names typed into the expense form and the keys they are cached under.
ItemNames == {"Milk", "MILK", "Soda", "constructor"}
CacheKeys == {toLowerCase(name) : name \in ItemNames}

\* An empty (or absent) cache object: no key has an entry.
EmptyCache == [key \in CacheKeys |-> Null]

\* The expense form as mounted for a new expense.
NoReply == [kind |-> "none", categories |-> <<>>]
NewForm ==
    [itemName |-> "", category |-> "", isCategorizing |-> FALSE, pc |-> "idle",
     askedFor |-> "", aiCalls |-> 0, reply |-> NoReply, toast |-> "", event |-> "mount"]

\* The tabs of one browser profile, which share localStorage.
Tabs == {1, 2}
NoWrite == [pc |-> "idle", item |-> "", category |-> "", read |-> EmptyCache]

\* The pages other than the one under study, before they are visited.
ExpensesPageAtRest == expPage = Null /\ docs = {}
BudgetAtRest == budget = Null
ShoppingListAtRest == shop = Null
SearchAtRest == search = Null
AuthAtRest == auth = Null
DashboardAtRest == dash = Null

PagesAtRest ==
    /\ ExpensesPageAtRest
    /\ BudgetAtRest
    /\ ShoppingListAtRest
    /\ SearchAtRest
    /\ AuthAtRest
    /\ DashboardAtRest

\* Everything outside the receipt modal, at rest.
OthersAtRest ==
    /\ calls = [i \in Invocations |-> NoCall]
    /\ img = NoImage
    /\ cache = EmptyCache
    /\ catForm = NewForm
    /\ writers = [t \in Tabs |-> NoWrite]
    /\ lastWritten = EmptyCache
    /\ PagesAtRest

Init ==
    /\ AppStart
    /\ OthersAtRest

\* ------------------------------------------------------ the modal's handlers

Toast(variant, title, description) ==
    [variant |-> variant, title |-> title, description |-> description]

MsgScanFallback == "Failed to scan receipt. Please try again or enter manually."

\* The catch of handleScan showing its own fixed text whatever was raised.
ScanErrorMessageFixed(message) == MsgScanFallback

\* err.message || "Failed to scan receipt. ..." in the catch of handleScan
ScanErrorMessage(message) == IF message = "" THEN MsgScanFallback ELSE message

\* disabled={!selectedFile || isScanning} of the Scan button, shown when
\* there is no scanResult
ScanButtonEnabled == scanResult = Null /\ selectedFile # Null /\ ~isScanning

\* The page's dialog trigger.
OpenModal ==
    /\ ~modalOpen
    /\ modalOpen' = TRUE
    /\ lastEvent' = "openModal"
    /\ toast' = Null
    /\ UNCHANGED <<user, modalVars, expenses, scanVars, flowVars, confirmVars, otherVars>>

\* The dialog closed from outside the modal's buttons (onOpenChange(false)).
DismissModal ==
    /\ modalOpen
    /\ modalOpen' = FALSE
    /\ lastEvent' = "dismiss"
    /\ toast' = Null
    /\ UNCHANGED <<user, modalVars, expenses, scanVars, flowVars, confirmVars, otherVars>>

\* onAuthStateChanged
AuthStateChanged(u) ==
    /\ u # user
    /\ user' = u
    /\ lastEvent' = "auth"
    /\ toast' = Null
    /\ UNCHANGED <<modalOpen, modalVars, expenses, scanVars, flowVars, confirmVars, otherVars>>

HandleFileChange(file) ==
    /\ modalOpen /\ scanResult = Null
    /\ selectedFile' = Some(file)
    /\ previewUrl' = Some(file)
    /\ scanResult' = Null
    /\ error' = Null
    /\ processedReceiptDataUri' = Null
    /\ lastEvent' = "fileChange"
    /\ toast' = Null
    /\ UNCHANGED <<modalOpen, user, isScanning, expenses, scanVars, flowVars, confirmVars, otherVars>>

\* clearSelection: what it sets
ClearSelection ==
    /\ selectedFile' = Null
    /\ previewUrl' = Null
    /\ scanResult' = Null
    /\ error' = Null
    /\ processedReceiptDataUri' = Null

\* The X button next to the file input.
ClearSelectionClick ==
    /\ modalOpen /\ scanResult = Null /\ selectedFile # Null
    /\ ClearSelection
    /\ lastEvent' = "clear"
    /\ toast' = Null
    /\ UNCHANGED <<modalOpen, user, isScanning, expenses, scanVars, flowVars, confirmVars, otherVars>>

\* The Cancel button: clearSelection(); onOpenChange(false).
Cancel ==
    /\ modalOpen
    /\ ClearSelection
    /\ modalOpen' = FALSE
    /\ lastEvent' = "cancel"
    /\ toast' = Null
    /\ UNCHANGED <<user, isScanning, expenses, scanVars, flowVars, confirmVars, otherVars>>

\* handleScan without its selectedFile guard.
HandleScanNoGuard ==
    /\ modalOpen /\ scanResult = Null /\ ~isScanning
    /\ isScanning' = TRUE
    /\ error' = Null
    /\ scanResult' = Null
    /\ processedReceiptDataUri' = Null
    /\ scanPc' = "resize"
    /\ scanFile' = selectedFile
    /\ lastEvent' = "scanStart"
    /\ toast' = Null
    /\ UNCHANGED <<modalOpen, user, selectedFile, previewUrl, expenses, flowVars, confirmVars, otherVars>>

\* handleScan up to its first await.  The handler's own guard is the
\* selectedFile test; a scan in progress keeps the button disabled.
HandleScan ==
    /\ modalOpen /\ scanResult = Null /\ ~isScanning
    /\ IF selectedFile = Null
       THEN /\ lastEvent' = "scanNoFile"
            /\ UNCHANGED <<modalVars, scanVars, flowVars>>
       ELSE /\ isScanning' = TRUE
            /\ error' = Null
            /\ scanResult' = Null
            /\ processedReceiptDataUri' = Null
            /\ scanPc' = "resize"
            /\ scanFile' = selectedFile
            /\ lastEvent' = "scanStart"
            /\ UNCHANGED <<selectedFile, previewUrl, flowVars>>
    /\ toast' = Null
    /\ UNCHANGED <<modalOpen, user, expenses, confirmVars, otherVars>>

\* How resizeAndCompressImage settles for each way the browser can answer.
ResizeHow == {"resized", "imgError", "noContext", "noBlob", "readerError"}
\* One success and one failure, for the runs that interleave the user's actions.
ResizeOutcomes == {"resized", "noBlob"}
Resolved(dataUri) == [ok |-> TRUE, dataUri |-> dataUri, message |-> ""]
Rejected(message) == [ok |-> FALSE, dataUri |-> "", message |-> message]
resizeAndCompressImage(file, how) ==
    CASE how = "resized" -> Resolved(DataUri(file, "image/jpeg"))
      [] how = "imgError" -> Resolved(DataUri(file, "original"))
      [] how = "noContext" -> Rejected("Could not get canvas context")
      [] how = "noBlob" -> Rejected("Canvas to Blob conversion failed")
      [] how = "readerError" -> Rejected("")

\* catch and finally of handleScan
ScanFailed(message) ==
    /\ error' = Some(ScanErrorMessage(message))
    /\ toast' = Some(Toast("destructive", "Scan Error", ScanErrorMessage(message)))
    /\ isScanning' = FALSE
    /\ scanPc' = "idle"
    /\ scanFile' = Null

\* handleScan resumed after resizeAndCompressImage: on success it calls
\* scanReceipt, whose handler issues Step 1.
ResizeSettle(how) ==
    /\ scanPc = "resize"
    /\ LET r == resizeAndCompressImage(scanFile[1], how)
       IN  IF r.ok
           THEN /\ processedReceiptDataUri' = Some(r.dataUri)
                /\ inFlight' = inFlight \cup {"step1"}
                /\ step1Calls' = step1Calls + 1
                /\ scanPc' = "step1"
                /\ lastEvent' = "step1Called"
                /\ toast' = Null
                /\ UNCHANGED <<isScanning, error, scanFile, step2Calls, step1Response,
                               step2Input, step2Response, flowOutcome>>
           ELSE /\ ScanFailed(r.message)
                /\ lastEvent' = "resizeFailed"
                /\ UNCHANGED <<processedReceiptDataUri, flowVars>>
    /\ UNCHANGED <<modalOpen, user, selectedFile, previewUrl, scanResult, expenses,
                   confirmVars, otherVars>>

\* extractRawContentPrompt settles; the flow handler runs on to the call of
\* structureScannedTextPrompt or to its throw.
Step1Return(r) ==
    /\ scanPc = "step1"
    /\ LET f == AfterStep1(r)
       IN  /\ step1Response' = Some(r)
           /\ IF f.next = "step2"
              THEN /\ inFlight' = (inFlight \ {"step1"}) \cup {"step2"}
                   /\ step2Calls' = step2Calls + 1
                   /\ step2Input' = Some(f.rawContent)
                   /\ scanPc' = "step2"
                   /\ flowOutcome' = flowOutcome
                   /\ lastEvent' = "step2Called"
              ELSE /\ inFlight' = inFlight \ {"step1"}
                   /\ flowOutcome' = Some(f)
                   /\ scanPc' = "settle"
                   /\ lastEvent' = "step1Failed"
                   /\ UNCHANGED <<step2Calls, step2Input>>
    /\ toast' = Null
    /\ UNCHANGED <<modalOpen, user, modalVars, expenses, scanFile,
                   step1Calls, step2Response, confirmVars, otherVars>>

\* structureScannedTextPrompt settles; the flow handler returns or throws.
Step2Return(r) ==
    /\ scanPc = "step2"
    /\ step2Response' = Some(r)
    /\ inFlight' = inFlight \ {"step2"}
    /\ flowOutcome' = Some(AfterStep2(r))
    /\ scanPc' = "settle"
    /\ lastEvent' = "step2Returned"
    /\ toast' = Null
    /\ UNCHANGED <<modalOpen, user, modalVars, expenses, scanFile,
                   step1Calls, step2Calls, step1Response, step2Input, confirmVars, otherVars>>

\* format(new Date(), 'yyyy-MM-dd')
Today == "2025-06-01"

\* obj[key] in JavaScript: undefined (null here) when the object has no such key
Field(obj, key) == IF key \in DOMAIN obj THEN Some(obj[key]) ELSE Null

\* x || fallback for a string
OrElse(x, fallback) == IF x = "" THEN fallback ELSE x

\* One element of expensesToSave.
ExpenseOf(item, uid, storeName, dataUri) ==
    [userId |-> uid,
     name |-> item.name,
     price |-> Field(item, "price"),
     category |-> OrElse(item.category, "Uncategorized"),
     date |-> Today,
     storeName |-> storeName,
     brand |-> OrElse(item.brand, ""),
     receiptImageUrl |-> dataUri,
     createdAt |-> "serverTimestamp"]

ExpensesToSave(result, uid, dataUri) ==
    [i \in 1..Len(result.items) |-> ExpenseOf(result.items[i], uid, result.storeName, dataUri)]

\* ScanSettle storing the items of a successful scan at once.
ScanSettleAutoSave ==
    /\ scanPc = "settle"
    /\ IF flowOutcome[1].next = "return"
       THEN /\ scanResult' = flowOutcome[1].value
            /\ expenses' = IF user = Null THEN expenses
                           ELSE expenses \o ExpensesToSave(flowOutcome[1].value[1], user[1],
                                                           processedReceiptDataUri)
            /\ isScanning' = FALSE
            /\ scanPc' = "idle"
            /\ scanFile' = Null
            /\ lastEvent' = "scanSucceeded"
            /\ toast' = Null
            /\ UNCHANGED <<error>>
       ELSE /\ ScanFailed(flowOutcome[1].message)
            /\ lastEvent' = "scanFailed"
            /\ UNCHANGED <<scanResult, expenses>>
    /\ inFlight' = {} /\ step1Calls' = 0 /\ step2Calls' = 0
    /\ step1Response' = Null /\ step2Input' = Null /\ step2Response' = Null
    /\ flowOutcome' = Null
    /\ UNCHANGED <<modalOpen, user, selectedFile, previewUrl, processedReceiptDataUri,
                   confirmVars, otherVars>>

\* handleScan resumed after scanReceipt: setScanResult, or catch; then finally.
ScanSettle ==
    /\ scanPc = "settle"
    /\ IF flowOutcome[1].next = "return"
       THEN /\ scanResult' = flowOutcome[1].value
            /\ isScanning' = FALSE
            /\ scanPc' = "idle"
            /\ scanFile' = Null
            /\ lastEvent' = "scanSucceeded"
            /\ toast' = Null
            /\ UNCHANGED <<error>>
       ELSE /\ ScanFailed(flowOutcome[1].message)
            /\ lastEvent' = "scanFailed"
            /\ UNCHANGED scanResult
    /\ inFlight' = {} /\ step1Calls' = 0 /\ step2Calls' = 0
    /\ step1Response' = Null /\ step2Input' = Null /\ step2Response' = Null
    /\ flowOutcome' = Null
    /\ UNCHANGED <<modalOpen, user, selectedFile, previewUrl, processedReceiptDataUri,
                   expenses, confirmVars, otherVars>>

\* ------------------------------------------------------- handleConfirmScan

\* The Confirm button, up to the first addDoc.
HandleConfirmScan ==
    /\ modalOpen /\ scanResult # Null /\ confirmPc = "idle"
    /\ IF user = Null
       THEN /\ toast' = Some(Toast("destructive", "Not Authenticated",
                                   "You need to be logged in to save expenses."))
            /\ lastEvent' = "confirmRefused"
            /\ UNCHANGED <<modalOpen, confirmVars>>
       ELSE LET list == ExpensesToSave(scanResult[1], user[1], processedReceiptDataUri)
            IN  /\ Len(expenses) + Len(list) <= MaxExpenses
                /\ IF Len(list) = 0
                   THEN /\ toast' = Some(Toast("default", "Success", "0"))
                        /\ modalOpen' = FALSE
                        /\ lastEvent' = "confirmDone"
                        /\ UNCHANGED confirmVars
                   ELSE /\ confirmPc' = "saving"
                        /\ expensesToSave' = list
                        /\ saveIdx' = 1
                        /\ lastEvent' = "confirmStart"
                        /\ toast' = Null
                        /\ UNCHANGED <<modalOpen>>
    /\ UNCHANGED <<user, modalVars, expenses, scanVars, flowVars, otherVars>>

\* addDoc resolves: the document is stored and the loop goes on or ends.
AddDocResolve ==
    /\ confirmPc = "saving"
    /\ expenses' = Append(expenses, expensesToSave[saveIdx])
    /\ IF saveIdx = Len(expensesToSave)
       THEN /\ toast' = Some(Toast("default", "Success", "added"))
            /\ modalOpen' = FALSE
            /\ confirmPc' = "idle"
            /\ expensesToSave' = <<>> /\ saveIdx' = 0
            /\ lastEvent' = "confirmDone"
       ELSE /\ saveIdx' = saveIdx + 1
            /\ lastEvent' = "addDoc"
            /\ toast' = Null
            /\ UNCHANGED <<modalOpen, confirmPc, expensesToSave>>
    /\ UNCHANGED <<user, modalVars, scanVars, flowVars, otherVars>>

\* addDoc rejects: the catch of handleConfirmScan.
AddDocReject ==
    /\ confirmPc = "saving"
    /\ toast' = Some(Toast("destructive", "Database Error", "Could not save scanned expenses."))
    /\ confirmPc' = "idle"
    /\ expensesToSave' = <<>> /\ saveIdx' = 0
    /\ lastEvent' = "confirmError"
    /\ UNCHANGED <<modalOpen, user, modalVars, expenses, scanVars, flowVars, otherVars>>

\* ------------------------------------------------------- the specification

Next ==
    \/ OpenModal
    \/ DismissModal
    \/ \E u \in {Null} \cup {Some(x) : x \in Users} : AuthStateChanged(u)
    \/ \E file \in Files : HandleFileChange(file)
    \/ ClearSelectionClick
    \/ Cancel
    \/ HandleScan
    \/ \E how \in ResizeOutcomes : ResizeSettle(how)
    \/ \E r \in Step1Outcomes : Step1Return(r)
    \/ \E r \in Step2Outcomes : Step2Return(r)
    \/ ScanSettle
    \/ HandleConfirmScan
    \/ AddDocResolve
    \/ AddDocReject

\* The modal with every interleaving of the user's actions, the scan and the
\* saving of a confirmed result.
Spec == Init /\ [][Next]_vars

\* One scan after another, with every response the model calls may give.
NextScan ==
    \/ OpenModal
    \/ \E file \in Files : HandleFileChange(file)
    \/ HandleScan
    \/ \E how \in ResizeHow : ResizeSettle(how)
    \/ \E r \in Step1Responses : Step1Return(r)
    \/ \E r \in Step2Responses : Step2Return(r)
    \/ ScanSettle

SpecScan == Init /\ [][NextScan]_vars

\* ------------------------------------------------------------------ claims

\* How a message thrown by the flow reads to its caller.
IsServiceUnavailable(message) ==
    message \in {MsgStep1Unavailable, MsgStep1ReportedOverloaded,
                 MsgStep2Unavailable, MsgStep2ReportedOverloaded}

\* The stage a message of the flow names: 1, 2, or 0 for none.
StageNamed(message) ==
    IF Includes(message, "structur") THEN 2
    ELSE IF Includes(message, "content extraction") \/ Includes(message, "extract content")
    THEN 1
    ELSE 0

\* A response that gives the handler nothing to go on with.
Step1Unusable(r) ==
    r.kind = "throw" \/ r.output = Null \/ r.output[1].rawContent = ""
Step2Unusable(r) == r.kind = "throw" \/ r.output = Null

\* The failure text a response carries: the thrown message, or its error field
\* as a string ("" when it has none).
FailureText(r) ==
    IF r.kind = "throw" THEN r.message
    ELSE IF Truthy(r.error) THEN String(r.error[1]) ELSE ""

FlowEnded == flowOutcome # Null
FlowThrew == FlowEnded /\ flowOutcome[1].next = "throw"
Step1FailedHere == FlowEnded /\ step2Response = Null
Step2FailedHere == FlowThrew /\ step2Response # Null

\* C1: Step 2 is called only once Step 1 has returned a non-empty rawContent,
\* the rawReceiptText it is given is exactly that rawContent, and the two
\* calls are never in flight together.
C1_Step2OnlyAfterStep1 ==
    /\ Cardinality(inFlight) <= 1
    /\ (step2Calls > 0 \/ "step2" \in inFlight) =>
          /\ "step1" \notin inFlight
          /\ step1Response # Null
          /\ step1Response[1].kind = "result"
          /\ step1Response[1].output # Null
          /\ step1Response[1].output[1].rawContent # ""
          /\ step2Input = Some(step1Response[1].output[1].rawContent)

C1_Witness ==
    /\ scanPc = "step2" /\ inFlight = {"step2"}
    /\ step2Input = Some("1 Plate $9.10 CHOW MEIN BROCCOLI BEEF")

HasMarker(text) ==
    \/ Includes(text, "503")
    \/ Includes(toLowerCase(text), "model is overloaded")
    \/ Includes(toLowerCase(text), "service unavailable")

\* The same failure, had Step 1 met it.
AsStep1Failure(r) == IF r.kind = "throw" THEN r ELSE Returned(Null, r.error)

FailedStep == IF step2Response = Null THEN 1 ELSE 2
FailedResponse == IF step2Response = Null THEN step1Response[1] ELSE step2Response[1]

C5_NoRetry ==
    /\ step1Calls <= 1 /\ step2Calls <= 1
    /\ scanPc \in {"step1", "step2", "settle"} => step1Calls = 1
    /\ (step1Response # Null /\ Step1Unusable(step1Response[1])) =>
          (step2Calls = 0 /\ "step2" \notin inFlight /\ scanPc = "settle")
    /\ FlowEnded => inFlight = {}

C5_Witness ==
    /\ Step1FailedHere
    /\ step1Response[1] = Returned(Some([rawContent |-> ""]), Null)
    /\ step1Calls = 1 /\ step2Calls = 0

\* C6: a missing or empty result of either step ends the invocation with an
\* error; a value is returned only when Step 2 gave an output, and it is that
\* output; a failed invocation returns no value at all.
C6_MissingResultIsAnError ==
    FlowEnded =>
        /\ (step1Response[1].kind = "result" /\ Step1Unusable(step1Response[1])) => FlowThrew
        /\ (step2Response # Null /\ step2Response[1].kind = "result"
              /\ step2Response[1].output = Null) => FlowThrew
        /\ flowOutcome[1].next = "return" =>
              /\ step2Response # Null
              /\ step2Response[1].output # Null
              /\ flowOutcome[1].value = step2Response[1].output
        /\ FlowThrew => flowOutcome[1].value = Null

C6_Witness ==
    /\ Step2FailedHere
    /\ step2Response[1] = Returned(Null, Null)
    /\ flowOutcome[1].message = MsgStep2NoData
    /\ flowOutcome[1].value = Null

\* The steps of a scan, from the click on Scan to the end of handleScan.
ScanEvents ==
    {"scanNoFile", "scanStart", "step1Called", "resizeFailed", "step2Called",
     "step1Failed", "step2Returned", "scanSucceeded", "scanFailed"}

\* C8: no step of a scan, from its start until it returns or fails, changes
\* the stored expense records; they change only in a step of
\* handleConfirmScan in which an addDoc resolved.
C8_ScanWritesNoExpense ==
    [][ /\ lastEvent' \in ScanEvents => expenses' = expenses
        /\ expenses' # expenses =>
              (confirmPc = "saving" /\ lastEvent' \in {"addDoc", "confirmDone"}) ]_vars

C8_Witness ==
    /\ lastEvent = "scanSucceeded"
    /\ scanResult = Some(PayloadPlate)
    /\ Len(expenses) = 2

C10_NoFileNoScan ==
    [][ (selectedFile = Null /\ lastEvent' \in {"scanNoFile", "scanStart"}) =>
            /\ UNCHANGED <<isScanning, scanResult, error>>
            /\ UNCHANGED <<scanVars, flowVars>>
            /\ inFlight' = {} /\ step1Calls' = 0 /\ step2Calls' = 0 ]_vars

C10_Witness ==
    /\ lastEvent = "scanNoFile"
    /\ selectedFile = Null /\ ~isScanning /\ scanPc = "idle"
    /\ inFlight = {} /\ step1Calls = 0

\* The price of a scanned line item, whichever of its two amounts is meant.
PricesOf(item) == {Some(item.unitPrice), Some(item.totalItemPrice)}

\* C11 as stated: a confirmation by a signed-in user prepares one record per
\* line item of the scan result, in order, each with the user's uid, today's
\* date and the item's name, price, category and brand; every addDoc that
\* resolves stores the next of these records and nothing else; a confirmation
\* without a signed-in user stores nothing.
C11_ConfirmStoresEveryItem ==
    [][ /\ lastEvent' = "confirmStart" =>
              LET items == scanResult[1].items
              IN  /\ Len(expensesToSave') = Len(items)
                  /\ \A i \in 1..Len(items) :
                        /\ expensesToSave'[i].userId = user[1]
                        /\ expensesToSave'[i].date = Today
                        /\ expensesToSave'[i].name = items[i].name
                        /\ expensesToSave'[i].price \in PricesOf(items[i])
                        /\ items[i].category # "" =>
                              expensesToSave'[i].category = items[i].category
                        /\ expensesToSave'[i].brand = items[i].brand
        /\ (confirmPc = "saving" /\ lastEvent' \in {"addDoc", "confirmDone"}) =>
              expenses' = Append(expenses, expensesToSave[saveIdx])
        /\ lastEvent' = "confirmDone" =>
              (confirmPc = "saving" => saveIdx = Len(expensesToSave))
        /\ lastEvent' = "confirmRefused" => expenses' = expenses ]_vars

\* ------------------------------------- scanReceipt, invoked side by side

\* The data URIs the invocations are given.
DataUris == {DataUri(file, "image/jpeg") : file \in Files}

\* What the model calls of the side-by-side invocations may give: failures of
\* each kind, an empty transcription and two different receipts.
PairStep1Responses ==
    Step1Outcomes
    \cup { Returned(Some([rawContent |-> ""]), Null),
           Returned(Some([rawContent |-> "1 Plate $9.10 CHOW MEIN BROCCOLI BEEF"]), Null) }
PairStep2Responses ==
    Step2Outcomes
    \cup { Returned(Null, Some(ErrStr("Service Unavailable"))),
           Returned(Some(PayloadSoda), Null) }

\* scanReceipt(input): the flow handler starts and issues Step 1 with its input.
ScanReceipt(i, uri) ==
    /\ calls[i].pc = "idle"
    /\ calls' = [calls EXCEPT ![i] = [@ EXCEPT !.pc = "step1", !.input = Some(uri)]]
    /\ UNCHANGED <<appVars, img, cache, catForm, writers, lastWritten, pageVars>>

\* Step 1 of invocation i settles; its handler goes on to the call of Step 2
\* with its own rawContentOutput, or throws.
PairStep1Return(i, r) ==
    /\ calls[i].pc = "step1"
    /\ LET f == AfterStep1(r)
       IN  calls' = [calls EXCEPT ![i] =
                IF f.next = "step2"
                THEN [@ EXCEPT !.pc = "step2", !.step1Response = Some(r),
                               !.step2Input = Some(f.rawContent)]
                ELSE [@ EXCEPT !.pc = "done", !.step1Response = Some(r),
                               !.outcome = Some(f)]]
    /\ UNCHANGED <<appVars, img, cache, catForm, writers, lastWritten, pageVars>>

\* The receipt another invocation has already returned, if there is one.
Returns(i) ==
    {calls[j].outcome[1] : j \in {k \in Invocations \ {i} :
                                      /\ calls[k].outcome # Null
                                      /\ calls[k].outcome[1].next = "return"}}

\* PairStep2Return answering from the receipt an earlier invocation returned.
PairStep2ReturnCached(i, r) ==
    /\ calls[i].pc = "step2"
    /\ calls' = [calls EXCEPT ![i] =
            [@ EXCEPT !.pc = "done", !.step2Response = Some(r),
                      !.outcome = IF Returns(i) # {}
                                  THEN Some(CHOOSE o \in Returns(i) : TRUE)
                                  ELSE Some(AfterStep2(r))]]
    /\ UNCHANGED <<appVars, img, cache, catForm, writers, lastWritten, pageVars>>

\* Step 2 of invocation i settles; its handler returns or throws.
PairStep2Return(i, r) ==
    /\ calls[i].pc = "step2"
    /\ calls' = [calls EXCEPT ![i] =
            [@ EXCEPT !.pc = "done", !.step2Response = Some(r),
                      !.outcome = Some(AfterStep2(r))]]
    /\ UNCHANGED <<appVars, img, cache, catForm, writers, lastWritten, pageVars>>

InitPair ==
    /\ AppStart /\ user = Null
    /\ OthersAtRest

NextPair ==
    \/ \E i \in Invocations, uri \in DataUris : ScanReceipt(i, uri)
    \/ \E i \in Invocations, r \in PairStep1Responses : PairStep1Return(i, r)
    \/ \E i \in Invocations, r \in PairStep2Responses : PairStep2Return(i, r)

\* Two invocations of scanReceipt under every interleaving of their steps.
SpecPair == InitPair /\ [][NextPair]_vars

\* What an invocation returns or throws when it runs alone and its two model
\* calls give r1 and r2.
Alone(r1, r2) ==
    IF AfterStep1(r1).next = "step2" THEN AfterStep2(r2) ELSE AfterStep1(r1)

C13_ResizeFailureFallsBack ==
    [][ (scanPc = "resize" /\ scanPc' # "resize") =>
            \/ /\ scanPc' = "step1" /\ "step1" \in inFlight'
               /\ processedReceiptDataUri' \in
                     { Some(DataUri(scanFile[1], "image/jpeg")),
                       Some(DataUri(scanFile[1], "original")) }
            \/ /\ lastEvent' = "resizeFailed"
               /\ error' = Some(MsgScanFallback) ]_vars

\* ---------------------------------- resizeAndCompressImage: the canvas size

MAX_IMAGE_WIDTH == 1200
MAX_IMAGE_HEIGHT == 1200

\* How far around the limit, and around its double, the image edges are taken.
EdgeSpread == 2

\* Edge lengths of the images loaded: tiny, about half the limit, around the
\* limit, around its double, and a camera photo's.
Dims ==
    (1..3) \cup {600, 601}
    \cup ((MAX_IMAGE_WIDTH - EdgeSpread)..(MAX_IMAGE_WIDTH + EdgeSpread))
    \cup ((2 * MAX_IMAGE_WIDTH - EdgeSpread)..(2 * MAX_IMAGE_WIDTH + EdgeSpread))
    \cup {3024, 4032}

\* Math.round(a / b) for positive integers: the nearest integer, a half going up.
MathRound(a, b) == (2 * a + b) \div (2 * b)

\* The onload computation with Math.floor in place of Math.round.
CanvasSizeFloored(width, height, maxWidth, maxHeight) ==
    IF width > height
    THEN IF width > maxWidth
         THEN [width |-> maxWidth, height |-> (height * maxWidth) \div width]
         ELSE [width |-> width, height |-> height]
    ELSE IF height > maxHeight
         THEN [width |-> (width * maxHeight) \div height, height |-> maxHeight]
         ELSE [width |-> width, height |-> height]

\* img.onload: the width and height given to the canvas.
CanvasSize(width, height, maxWidth, maxHeight) ==
    IF width > height
    THEN IF width > maxWidth
         THEN [width |-> maxWidth, height |-> MathRound(height * maxWidth, width)]
         ELSE [width |-> width, height |-> height]
    ELSE IF height > maxHeight
         THEN [width |-> MathRound(width * maxHeight, height), height |-> maxHeight]
         ELSE [width |-> width, height |-> height]

\* The image has loaded; onload sizes the canvas.
ImgOnload ==
    /\ img.pc = "loaded"
    /\ LET size == CanvasSize(img.width, img.height, MAX_IMAGE_WIDTH, MAX_IMAGE_HEIGHT)
       IN  img' = [img EXCEPT !.pc = "sized", !.canvasWidth = size.width,
                              !.canvasHeight = size.height]
    /\ UNCHANGED <<appVars, calls, cache, catForm, writers, lastWritten, pageVars>>

InitResize ==
    /\ AppStart /\ user = Null
    /\ calls = [i \in Invocations |-> NoCall]
    /\ cache = EmptyCache /\ catForm = NewForm
    /\ writers = [t \in Tabs |-> NoWrite] /\ lastWritten = EmptyCache
    /\ PagesAtRest
    /\ img \in {[pc |-> "loaded", width |-> w, height |-> h, canvasWidth |-> 0,
                 canvasHeight |-> 0] : w \in Dims, h \in Dims}

NextResize == ImgOnload

\* resizeAndCompressImage sizing the canvas for an image of each size.
SpecResize == InitResize /\ [][NextResize]_vars

Max(a, b) == IF a >= b THEN a ELSE b

\* n is x / y rounded to the nearest integer, a half going up.
IsRounded(n, x, y) == 2 * n * y - y <= 2 * x /\ 2 * x < 2 * n * y + y

\* C14: the canvas is never longer than 1200 on either edge; an image that
\* fits keeps its size; otherwise the longer edge becomes exactly 1200 and the
\* shorter edge becomes shorter * 1200 / longer, rounded.
C14_LongerEdgeBounded ==
    img.pc = "sized" =>
        /\ Max(img.canvasWidth, img.canvasHeight) <= 1200
        /\ Max(img.width, img.height) <= 1200 =>
              (img.canvasWidth = img.width /\ img.canvasHeight = img.height)
        /\ (Max(img.width, img.height) > 1200 /\ img.width >= img.height) =>
              /\ img.canvasWidth = 1200
              /\ IsRounded(img.canvasHeight, img.height * 1200, img.width)
        /\ (Max(img.width, img.height) > 1200 /\ img.height >= img.width) =>
              /\ img.canvasHeight = 1200
              /\ IsRounded(img.canvasWidth, img.width * 1200, img.height)

C14_Witness ==
    /\ img.pc = "sized"
    /\ img.width = 1201 /\ img.height = 600
    /\ img.canvasWidth = 1200 /\ img.canvasHeight = 600

\* C15: whenever Step 2 gives an output, scanReceipt returns exactly that
\* output, its total and its items untouched, also when the sum of the items'
\* totalItemPrice is not the total.
C15_NoReconciliation ==
    (FlowEnded /\ step2Response # Null /\ step2Response[1].kind = "result"
       /\ step2Response[1].output # Null) =>
        /\ flowOutcome[1].next = "return"
        /\ flowOutcome[1].value[1].total = step2Response[1].output[1].total
        /\ flowOutcome[1].value[1].items = step2Response[1].output[1].items
        /\ flowOutcome[1].value[1].storeName = step2Response[1].output[1].storeName

C15_Witness ==
    /\ FlowEnded /\ flowOutcome[1].next = "return"
    /\ flowOutcome[1].value[1].total = 1200
    /\ SumOfItems(flowOutcome[1].value[1].items) = 1310

\* C16 as stated: every receipt a successful scanReceipt returns has a
\* non-negative total and a positive quantity in every line item, whatever
\* numbers Step 2 produced.
C16_ReturnedReceiptInRange ==
    (FlowEnded /\ flowOutcome[1].next = "return") =>
        /\ flowOutcome[1].value[1].total >= 0
        /\ \A i \in 1..Len(flowOutcome[1].value[1].items) :
              flowOutcome[1].value[1].items[i].quantity > 0

\* ------------------------------------- the expense form's category cache

\* The properties a parsed JSON object inherits from Object.prototype under an
\* all-lowercase name, as they read when used as a string.
InheritedProperty(key) ==
    IF key = "constructor" THEN Some("function Object() { [native code] }") ELSE Null

\* localStorage.getItem(...) gives a string: some setCachedCategory has run.
CacheStored(obj) == \E key \in CacheKeys : obj[key] # Null

\* obj[key] of a parsed cache object
Lookup(obj, key) == IF obj[key] # Null THEN obj[key] ELSE InheritedProperty(key)

\* getCachedCategory: null when nothing is stored, else
\* cache[item.toLowerCase()] || null
getCachedCategory(obj, item) ==
    IF ~CacheStored(obj) THEN Null
    ELSE LET value == Lookup(obj, toLowerCase(item))
         IN  IF value = Null \/ value[1] = "" THEN Null ELSE value

\* setCachedCategory: the stored object with cache[item.toLowerCase()] = category
setCachedCategory(obj, item, category) ==
    [obj EXCEPT ![toLowerCase(item)] = Some(category)]

\* What categorizeExpense may resolve with: no categories field, none, one,
\* several, or one that is empty.
AiReplies ==
    { [kind |-> "resolved", categories |-> c] :
        c \in {<<>>, <<"Food">>, <<"Shopping", "Other">>, <<"">>} }
    \cup {[kind |-> "undefined", categories |-> <<>>]}
Rejection == [kind |-> "rejected", categories |-> <<>>]

\* The name field is edited (watch("name")).
SetItemName(name) ==
    /\ name # catForm.itemName
    /\ catForm' = [catForm EXCEPT !.itemName = name, !.toast = "", !.event = "typed"]
    /\ UNCHANGED <<appVars, calls, img, cache, writers, lastWritten, pageVars>>

\* handleSuggestCategory up to its return or its await; the button is
\* disabled while isCategorizing or without a name.
HandleSuggestCategory ==
    /\ catForm.itemName # "" /\ ~catForm.isCategorizing
    /\ LET cachedCategory == getCachedCategory(cache, catForm.itemName)
       IN  IF cachedCategory # Null
           THEN catForm' = [catForm EXCEPT !.category = cachedCategory[1],
                                           !.isCategorizing = FALSE,
                                           !.askedFor = catForm.itemName,
                                           !.aiCalls = 0, !.reply = NoReply,
                                           !.toast = "Cached Category Applied",
                                           !.event = "suggestCached"]
           ELSE catForm' = [catForm EXCEPT !.isCategorizing = TRUE,
                                           !.pc = "awaitAI",
                                           !.askedFor = catForm.itemName,
                                           !.aiCalls = 1, !.reply = NoReply,
                                           !.toast = "", !.event = "suggestAsked"]
    /\ UNCHANGED <<appVars, calls, img, cache, writers, lastWritten, pageVars>>

\* categorizeExpense resolves; the handler runs to its end.
CategorizeResolve(result) ==
    /\ catForm.pc = "awaitAI"
    /\ IF result.kind = "resolved" /\ Len(result.categories) > 0
       THEN LET suggestedCategory == result.categories[1]
            IN  /\ catForm' = [catForm EXCEPT !.category = suggestedCategory,
                                              !.isCategorizing = FALSE, !.pc = "idle",
                                              !.reply = result,
                                              !.toast = "AI Category Suggested",
                                              !.event = "aiApplied"]
                /\ cache' = setCachedCategory(cache, catForm.askedFor, suggestedCategory)
       ELSE /\ catForm' = [catForm EXCEPT !.isCategorizing = FALSE, !.pc = "idle",
                                          !.reply = result,
                                          !.toast = "AI Suggestion Failed",
                                          !.event = "aiEmpty"]
            /\ UNCHANGED cache
    /\ UNCHANGED <<appVars, calls, img, writers, lastWritten, pageVars>>

\* categorizeExpense rejects: catch and finally.
CategorizeReject ==
    /\ catForm.pc = "awaitAI"
    /\ catForm' = [catForm EXCEPT !.isCategorizing = FALSE, !.pc = "idle",
                                  !.reply = Rejection,
                                  !.toast = "AI Error", !.event = "aiError"]
    /\ UNCHANGED <<appVars, calls, img, cache, writers, lastWritten, pageVars>>

InitCategory == AppStart /\ user = Null /\ OthersAtRest

NextCategory ==
    \/ \E name \in ItemNames \cup {""} : SetItemName(name)
    \/ HandleSuggestCategory
    \/ \E result \in AiReplies : CategorizeResolve(result)
    \/ CategorizeReject

\* The expense form of one tab: names typed, categories suggested.
SpecCategory == InitCategory /\ [][NextCategory]_vars

\* The name has a non-empty category stored under its lowercased form.
HasCachedCategory(obj, item) ==
    obj[toLowerCase(item)] # Null /\ obj[toLowerCase(item)][1] # ""

\* C17 as stated: for a name whose lowercased form has a non-empty cached
\* category, whatever its casing, handleSuggestCategory applies that category
\* and calls no AI; otherwise it calls the AI once and, only when the reply
\* has at least one category, applies the first and stores it under the
\* lowercased name; a failed or empty reply leaves the cache as it was;
\* isCategorizing is false whenever the handler has finished.
C17_CacheKeyedByLowercaseName ==
    [][ /\ catForm'.event \in {"suggestCached", "suggestAsked"} =>
              IF HasCachedCategory(cache, catForm.itemName)
              THEN /\ catForm'.category = cache[toLowerCase(catForm.itemName)][1]
                   /\ catForm'.aiCalls = 0 /\ catForm'.pc = "idle"
                   /\ ~catForm'.isCategorizing
                   /\ cache' = cache
              ELSE /\ catForm'.aiCalls = 1 /\ catForm'.pc = "awaitAI"
                   /\ catForm'.category = catForm.category
                   /\ cache' = cache
        /\ (catForm.pc = "awaitAI" /\ catForm'.pc = "idle") =>
              /\ catForm'.aiCalls = 1
              /\ ~catForm'.isCategorizing
              /\ IF catForm'.reply.kind = "resolved" /\ Len(catForm'.reply.categories) > 0
                 THEN /\ catForm'.category = catForm'.reply.categories[1]
                      /\ cache' = [cache EXCEPT ![toLowerCase(catForm.askedFor)] =
                                       Some(catForm'.reply.categories[1])]
                 ELSE /\ cache' = cache
                      /\ catForm'.category = catForm.category ]_vars

\* --------------------------- setCachedCategory run by two tabs at a time

\* The items and categories the tabs store.
WrittenItems == {"Milk", "Soda"}
WrittenCategories == {"Food", "Drink"}

\* setCachedCategory, lines 108-109: the stored string is read and parsed
\* (an empty object when there is none).
SetCachedRead(t, item, category) ==
    /\ writers[t].pc = "idle"
    /\ writers' = [writers EXCEPT ![t] =
            [pc |-> "read", item |-> item, category |-> category, read |-> cache]]
    /\ UNCHANGED <<appVars, calls, img, cache, catForm, lastWritten, pageVars>>

\* SetCachedWrite updating the object as stored at the time of the write.
SetCachedWriteMerging(t) ==
    /\ writers[t].pc = "read"
    /\ cache' = setCachedCategory(cache, writers[t].item, writers[t].category)
    /\ lastWritten' = [lastWritten EXCEPT ![toLowerCase(writers[t].item)] =
                           Some(writers[t].category)]
    /\ writers' = [writers EXCEPT ![t] = NoWrite]
    /\ UNCHANGED <<appVars, calls, img, catForm, pageVars>>

\* setCachedCategory, lines 110-111: the object that was read gets the key and
\* is written back whole.
SetCachedWrite(t) ==
    /\ writers[t].pc = "read"
    /\ cache' = setCachedCategory(writers[t].read, writers[t].item, writers[t].category)
    /\ lastWritten' = [lastWritten EXCEPT ![toLowerCase(writers[t].item)] =
                           Some(writers[t].category)]
    /\ writers' = [writers EXCEPT ![t] = NoWrite]
    /\ UNCHANGED <<appVars, calls, img, catForm, pageVars>>

InitCache == AppStart /\ user = Null /\ OthersAtRest

NextCache ==
    \/ \E t \in Tabs, item \in WrittenItems, category \in WrittenCategories :
          SetCachedRead(t, item, category)
    \/ \E t \in Tabs : SetCachedWrite(t)

\* Two tabs storing categories, their reads and write-backs in every order.
SpecCache == InitCache /\ [][NextCache]_vars

\* The step is the write-back of tab t.
WritesBack(t) == writers[t].pc = "read" /\ writers'[t].pc = "idle"

\* C18 as stated: after any interleaving the category stored for every key is
\* the one of the last write made to that key, and a write to one key leaves
\* the entry of every other key as it was.
C18_PerKeyLastWriteWins ==
    [][ \A t \in Tabs : WritesBack(t) =>
            /\ \A key \in CacheKeys : cache'[key] = lastWritten'[key]
            /\ \A key \in CacheKeys \ {toLowerCase(writers[t].item)} :
                  cache'[key] = cache[key] ]_vars

\* C18, amended: the last write wins on the whole map.  A write-back stores
\* the map its writer read with the writer's key set, so that key holds the
\* value of the last write made to it; the other keys are left as they were
\* when no other write-back came between the writer's read and its
\* write-back, and are otherwise put back to what the writer read.
C18_WholeMapLastWriteWins ==
    [][ \A t \in Tabs : WritesBack(t) =>
            LET key == toLowerCase(writers[t].item)
            IN  /\ cache'[key] = Some(writers[t].category)
                /\ cache'[key] = lastWritten'[key]
                /\ \A other \in CacheKeys \ {key} : cache'[other] = writers[t].read[other]
                /\ writers[t].read = cache =>
                      \A other \in CacheKeys \ {key} : cache'[other] = cache[other] ]_vars

C18_Witness ==
    /\ lastWritten["milk"] = Some("Food")
    /\ lastWritten["soda"] = Some("Drink")
    /\ cache["milk"] = Null
    /\ cache["soda"] = Some("Drink")
    /\ \A t \in Tabs : writers[t].pc = "idle"

\* C20 as stated: a scan result is shown only for the file that is selected:
\* when handleScan sets scanResult, the file it scanned is still the selected
\* one (it was not replaced, cleared or cancelled meanwhile), and the
\* selection does not change while a result is shown.
C20_ResultIsOfSelectedFile ==
    [][ /\ (scanPc = "settle" /\ scanResult' # Null) =>
              selectedFile = scanFile
        /\ (scanResult # Null /\ scanResult' # Null) =>
              selectedFile' = selectedFile ]_vars

\* C21 as stated: a confirmation ends either with every line item stored and
\* the modal closed, or with a database error and no record stored by it; and
\* the store never holds a second copy of a record.
C21_ConfirmAllOrNothing ==
    [][ /\ lastEvent' = "confirmError" => saveIdx = 1
        /\ lastEvent' = "confirmDone" =>
              /\ ~modalOpen'
              /\ confirmPc = "saving" => saveIdx = Len(expensesToSave)
        /\ \A i, j \in 1..Len(expenses') :
              i # j => expenses'[i] # expenses'[j] ]_vars

\* ------------------------------------------------------ the Expenses page
\* src/app/(app)/expenses/page.tsx on its own: the signed-in user as useAuth
\* reports it, the list the snapshot listener keeps, the form, and the one
\* Firestore write the page awaits.

MaxDocs == 2
PageUsers == {"u1", "u2"}
ExpenseNames == {"tea", "rice"}

\* The id the form makes up for a new expense (Date.now().toString()): the id
\* of no document.
FormId == 0

ExpensesPageMounted ==
    [user |-> Null, authLoading |-> TRUE, expenses |-> {}, isLoadingExpenses |-> TRUE,
     showExpenseForm |-> FALSE, editingExpense |-> Null, pending |-> Null,
     toast |-> "", nextId |-> 1]

\* query(collection(db, "expenses"), where("userId", "==", uid))
QueryByUser(uid) == {d \in docs : d.userId = uid}

\* The effect on [user, authLoading]: without a user the list is emptied once
\* auth has loaded, with one the page shows its loader until the first snapshot.
ExpAuthStateChanged(u) ==
    /\ expPage.authLoading \/ (expPage.user = Null) # (u = Null)
    /\ expPage' = [expPage EXCEPT !.user = u, !.authLoading = FALSE,
                       !.expenses = IF u = Null THEN {} ELSE @,
                       !.isLoadingExpenses = (u # Null)]
    /\ UNCHANGED <<appVars, featureVars, docs, budget, shop, search, auth, dash>>

\* onSnapshot's callback for the signed-in user's query.
ExpSnapshot ==
    /\ expPage.user # Null
    /\ expPage' = [expPage EXCEPT !.expenses = QueryByUser(expPage.user[1]),
                       !.isLoadingExpenses = FALSE]
    /\ UNCHANGED <<appVars, featureVars, docs, budget, shop, search, auth, dash>>

\* onSnapshot's error callback: a toast, and the loader goes.
ExpSnapshotError ==
    /\ expPage.user # Null
    /\ expPage.isLoadingExpenses
    /\ expPage' = [expPage EXCEPT !.isLoadingExpenses = FALSE, !.toast = "Error"]
    /\ UNCHANGED <<appVars, featureVars, docs, budget, shop, search, auth, dash>>

\* The effect on the URL's action parameter.
UrlActionAdd ==
    /\ ~expPage.showExpenseForm \/ expPage.editingExpense # Null
    /\ expPage' = [expPage EXCEPT !.showExpenseForm = TRUE, !.editingExpense = Null]
    /\ UNCHANGED <<appVars, featureVars, docs, budget, shop, search, auth, dash>>

handleToggleForm ==
    /\ expPage' = [expPage EXCEPT !.showExpenseForm = ~@,
                       !.editingExpense = IF expPage.showExpenseForm THEN Null ELSE @]
    /\ UNCHANGED <<appVars, featureVars, docs, budget, shop, search, auth, dash>>

\* The table is drawn once neither auth nor the list is loading; its rows are
\* the list's expenses.
TableShown == ~expPage.authLoading /\ ~expPage.isLoadingExpenses

handleEditExpense ==
    /\ TableShown
    /\ \E expense \in expPage.expenses :
          /\ expPage.editingExpense # Some(expense) \/ ~expPage.showExpenseForm
          /\ expPage' = [expPage EXCEPT !.editingExpense = Some(expense),
                             !.showExpenseForm = TRUE]
    /\ UNCHANGED <<appVars, featureVars, docs, budget, shop, search, auth, dash>>

\* What the handlers do to the page when they find no user.
AuthenticationError == [expPage EXCEPT !.toast = "Authentication Error"]

\* handleAddExpense up to its await: the form's id, userId and createdAt are
\* dropped, the user's uid is put in.
AfterHandleAddExpense(expenseDataFromForm) ==
    IF expPage.user = Null THEN AuthenticationError
    ELSE [expPage EXCEPT !.pending =
             Some([op |-> "add", by |-> expPage.user[1], id |-> FormId,
                   userId |-> expPage.user[1], name |-> expenseDataFromForm.name])]

\* handleUpdateExpense up to its await, without the comparison of userIds.
AfterHandleUpdateExpenseAnyOwner(updatedExpense) ==
    IF expPage.user = Null THEN AuthenticationError
    ELSE [expPage EXCEPT !.pending =
             Some([op |-> "update", by |-> expPage.user[1], id |-> updatedExpense.id,
                   userId |-> updatedExpense.userId, name |-> updatedExpense.name])]
\* handleUpdateExpense up to its await: what is sent is the expense without
\* id, userId and createdAt, to the document of its id.
AfterHandleUpdateExpense(updatedExpense) ==
    IF expPage.user = Null THEN AuthenticationError
    ELSE IF updatedExpense.userId # expPage.user[1]
    THEN [expPage EXCEPT !.toast = "Authorization Error"]
    ELSE [expPage EXCEPT !.pending =
             Some([op |-> "update", by |-> expPage.user[1], id |-> updatedExpense.id,
                   userId |-> updatedExpense.userId, name |-> updatedExpense.name])]

\* The form's submit: processSubmit hands the handler the form's fields over
\* initialData's id and userId; the page picked the handler by editingExpense.
\* handleAddExpense is also given forms that carry somebody's userId.
SubmitExpenseForm ==
    /\ expPage.showExpenseForm
    /\ expPage.pending = Null
    /\ \E name \in ExpenseNames, formUserId \in PageUsers \cup {""} :
          expPage' =
             IF expPage.editingExpense # Null
             THEN AfterHandleUpdateExpense(
                      [expPage.editingExpense[1] EXCEPT !.name = name])
             ELSE AfterHandleAddExpense(
                      [id |-> FormId, userId |-> formUserId, createdAt |-> 0,
                       name |-> name])
    /\ expPage' # expPage
    /\ UNCHANGED <<appVars, featureVars, docs, budget, shop, search, auth, dash>>

\* handleDeleteExpense up to its await, for a row of the table.
handleDeleteExpense ==
    /\ TableShown
    /\ expPage.pending = Null
    /\ \E expense \in expPage.expenses :
          expPage' =
             IF expPage.user = Null THEN AuthenticationError
             ELSE [expPage EXCEPT !.pending =
                      Some([op |-> "delete", by |-> expPage.user[1], id |-> expense.id,
                            userId |-> expense.userId, name |-> expense.name])]
    /\ expPage' # expPage
    /\ UNCHANGED <<appVars, featureVars, docs, budget, shop, search, auth, dash>>

\* The collection after the awaited write went through: addDoc makes a
\* document with a fresh id and the server's timestamp, updateDoc replaces the
\* fields it was sent, deleteDoc removes the document.
Written(w) ==
    CASE w.op = "add" ->
            docs \cup {[id |-> expPage.nextId, userId |-> w.userId,
                        createdAt |-> expPage.nextId, name |-> w.name]}
      [] w.op = "update" ->
            {IF d.id = w.id THEN [d EXCEPT !.name = w.name] ELSE d : d \in docs}
      [] w.op = "delete" -> {d \in docs : d.id # w.id}

\* The write succeeds. updateDoc succeeds only on a document that exists. Add
\* and update then close the form and forget the edited expense.
WriteResolve ==
    /\ expPage.pending # Null
    /\ LET w == expPage.pending[1] IN
          /\ w.op = "add" => expPage.nextId <= MaxDocs
          /\ w.op = "update" => \E d \in docs : d.id = w.id
          /\ docs' = Written(w)
          /\ expPage' = [expPage EXCEPT !.pending = Null, !.toast = "Success",
                             !.nextId = IF w.op = "add" THEN @ + 1 ELSE @,
                             !.showExpenseForm = IF w.op = "delete" THEN @ ELSE FALSE,
                             !.editingExpense = IF w.op = "delete" THEN @ ELSE Null]
    /\ UNCHANGED <<appVars, featureVars, budget, shop, search, auth, dash>>

\* The write fails: a toast and nothing else.
WriteReject ==
    /\ expPage.pending # Null
    /\ expPage' = [expPage EXCEPT !.pending = Null, !.toast = "Error"]
    /\ UNCHANGED <<appVars, featureVars, docs, budget, shop, search, auth, dash>>

InitExpenses ==
    /\ AppStart /\ user = Null
    /\ calls = [i \in Invocations |-> NoCall] /\ img = NoImage
    /\ cache = EmptyCache /\ catForm = NewForm
    /\ writers = [t \in Tabs |-> NoWrite] /\ lastWritten = EmptyCache
    /\ BudgetAtRest /\ ShoppingListAtRest /\ SearchAtRest /\ AuthAtRest
    /\ DashboardAtRest
    /\ expPage = ExpensesPageMounted
    /\ docs = {}

NextExpenses ==
    \/ \E u \in {Null} \cup {Some(p) : p \in PageUsers} : ExpAuthStateChanged(u)
    \/ ExpSnapshot
    \/ ExpSnapshotError
    \/ UrlActionAdd
    \/ handleToggleForm
    \/ handleEditExpense
    \/ SubmitExpenseForm
    \/ handleDeleteExpense
    \/ WriteResolve
    \/ WriteReject

\* The Expenses page under sign-in, sign-out, snapshots and its handlers.
SpecExpenses == InitExpenses /\ [][NextExpenses]_vars

C24_EditingIsShownAndListed ==
    expPage # Null /\ expPage.editingExpense # Null =>
        /\ expPage.showExpenseForm
        /\ \E d \in expPage.expenses : d.id = expPage.editingExpense[1].id

\* ------------------------------------------------------ the budget card
\* DashboardPage's monthly budget: src/app/(app)/dashboard/page.tsx lines
\* 91-147 and 245-275, for a signed-in user. Amounts are counted in tenths of
\* the currency unit, so that 2.5 is the integer 25.

MaxSaves == 2

DigitChars == <<"0", "1", "2", "3", "4", "5", "6", "7", "8", "9">>
IsDigit(c) == \E d \in 1..10 : DigitChars[d] = c
DigitValue(c) == (CHOOSE d \in 1..10 : DigitChars[d] = c) - 1
CharAt(s, i) == IF i <= Len(s) THEN SubSeq(s, i, i) ELSE ""

\* The position after the run of digits of s that starts at i.
RECURSIVE DigitsEnd(_, _)
DigitsEnd(s, i) == IF IsDigit(CharAt(s, i)) THEN DigitsEnd(s, i + 1) ELSE i

\* The value of the digits of s from i up to j - 1.
RECURSIVE DigitsValue(_, _, _)
DigitsValue(s, i, j) ==
    IF j <= i THEN 0 ELSE 10 * DigitsValue(s, i, j - 1) + DigitValue(CharAt(s, j - 1))

\* The position of the first character of s, from i on, that is no blank.
RECURSIVE SkipBlanks(_, _)
SkipBlanks(s, i) == IF CharAt(s, i) = " " THEN SkipBlanks(s, i + 1) ELSE i

\* JavaScript's parseFloat on decimal literals: leading blanks are skipped, a
\* sign is read, then digits, then a point and more digits; whatever follows
\* is ignored, and with no digit at all the result is NaN (Null here). The
\* result is in tenths: the digits after the first decimal are dropped.
parseFloat(s) ==
    LET start == SkipBlanks(s, 1)
        signed == CharAt(s, start) \in {"-", "+"}
        negative == CharAt(s, start) = "-"
        intFrom == IF signed THEN start + 1 ELSE start
        intTo == DigitsEnd(s, intFrom)
        hasPoint == CharAt(s, intTo) = "."
        fracFrom == intTo + 1
        fracTo == IF hasPoint THEN DigitsEnd(s, fracFrom) ELSE fracFrom
        tenths == 10 * DigitsValue(s, intFrom, intTo)
                    + (IF fracTo > fracFrom THEN DigitValue(CharAt(s, fracFrom)) ELSE 0)
    IN  IF intTo = intFrom /\ fracTo = fracFrom THEN Null
        ELSE Some(IF negative THEN 0 - tenths ELSE tenths)

isNaN(x) == x = Null

\* Number.prototype.toString for a non-negative amount in tenths.
RECURSIVE NatToString(_)
NatToString(n) ==
    IF n < 10 THEN DigitChars[n + 1] ELSE NatToString(n \div 10) \o DigitChars[(n % 10) + 1]
NumberToString(t) ==
    LET a == IF t < 0 THEN 0 - t ELSE t
        whole == NatToString(a \div 10)
        text == IF a % 10 = 0 THEN whole ELSE whole \o "." \o DigitChars[(a % 10) + 1]
    IN  IF t < 0 THEN "-" \o text ELSE text

\* What an <input type="number"> hands to onChange: the empty string for
\* anything that is no number, or the number as typed.
BudgetInputs == {"", "0", "5", "-5", "2.5", "-0.5"}

\* userPreferences/{uid}.monthlyBudget when the page is opened: absent or 3.
StoredBudgets == {Null, Some(30)}

BudgetCardMounted(stored) ==
    [monthlyBudget |-> Null, isLoadingBudget |-> TRUE, isEditingBudget |-> FALSE,
     newBudgetAmount |-> "", stored |-> stored, fetching |-> TRUE, saves |-> <<>>,
     toast |-> "", event |-> "mount"]

\* fetchUserPreferences after its getDoc, on either way out.
FetchResolve ==
    /\ budget.fetching
    /\ LET b == IF budget.stored # Null THEN budget.stored[1] ELSE 0 IN
          budget' = [budget EXCEPT !.monthlyBudget = Some(b),
                         !.newBudgetAmount = NumberToString(b),
                         !.isLoadingBudget = FALSE, !.fetching = FALSE,
                         !.event = "fetched"]
    /\ UNCHANGED <<appVars, featureVars, expPage, docs, shop, search, auth, dash>>

FetchReject ==
    /\ budget.fetching
    /\ budget' = [budget EXCEPT !.monthlyBudget = Some(0), !.newBudgetAmount = "0",
                      !.isLoadingBudget = FALSE, !.fetching = FALSE,
                      !.toast = "Could not fetch budget.", !.event = "fetchFailed"]
    /\ UNCHANGED <<appVars, featureVars, expPage, docs, shop, search, auth, dash>>

\* The card shows the budget (and its buttons) once it has loaded.
BudgetShown == ~budget.isLoadingBudget /\ budget.monthlyBudget # Null

\* The pencil (or "Set Budget") button.
StartEditingBudget ==
    /\ BudgetShown /\ ~budget.isEditingBudget
    /\ budget' = [budget EXCEPT !.isEditingBudget = TRUE, !.event = "edit"]
    /\ UNCHANGED <<appVars, featureVars, expPage, docs, shop, search, auth, dash>>

\* onChange of the amount input.
TypeBudgetAmount(text) ==
    /\ BudgetShown /\ budget.isEditingBudget
    /\ budget.newBudgetAmount # text
    /\ budget' = [budget EXCEPT !.newBudgetAmount = text, !.event = "type"]
    /\ UNCHANGED <<appVars, featureVars, expPage, docs, shop, search, auth, dash>>

\* The X button next to the input.
CancelEditingBudget ==
    /\ BudgetShown /\ budget.isEditingBudget
    /\ budget' = [budget EXCEPT !.isEditingBudget = FALSE,
                      !.newBudgetAmount = NumberToString(budget.monthlyBudget[1]),
                      !.event = "cancel"]
    /\ UNCHANGED <<appVars, featureVars, expPage, docs, shop, search, auth, dash>>

\* handleSaveBudget up to its await, accepting negative amounts.
AfterHandleSaveBudgetAnySign ==
    LET budgetVal == parseFloat(budget.newBudgetAmount) IN
    IF isNaN(budgetVal)
    THEN [budget EXCEPT !.toast = "Invalid Amount", !.event = "saveInvalid"]
    ELSE [budget EXCEPT !.saves = Append(@, budgetVal[1]), !.event = "saveIssued"]
\* handleSaveBudget up to its await: an amount that is NaN or negative ends it
\* with a toast, any other is sent with setDoc.
AfterHandleSaveBudget ==
    LET budgetVal == parseFloat(budget.newBudgetAmount) IN
    IF isNaN(budgetVal) \/ budgetVal[1] < 0
    THEN [budget EXCEPT !.toast = "Invalid Amount", !.event = "saveInvalid"]
    ELSE [budget EXCEPT !.saves = Append(@, budgetVal[1]), !.event = "saveIssued"]

\* The check button next to the input.
handleSaveBudget ==
    /\ BudgetShown /\ budget.isEditingBudget
    /\ Len(budget.saves) < MaxSaves
    /\ budget' = AfterHandleSaveBudget
    /\ UNCHANGED <<appVars, featureVars, expPage, docs, shop, search, auth, dash>>

\* The oldest setDoc succeeds: the document and monthlyBudget take its amount
\* and editing ends.
SetDocResolve ==
    /\ budget.saves # <<>>
    /\ budget' = [budget EXCEPT !.saves = Tail(@), !.stored = Some(Head(budget.saves)),
                      !.monthlyBudget = Some(Head(budget.saves)),
                      !.isEditingBudget = FALSE, !.toast = "Success",
                      !.event = "saveResolved"]
    /\ UNCHANGED <<appVars, featureVars, expPage, docs, shop, search, auth, dash>>

\* The oldest setDoc fails: a toast.
SetDocReject ==
    /\ budget.saves # <<>>
    /\ budget' = [budget EXCEPT !.saves = Tail(@), !.toast = "Could not save budget.",
                      !.event = "saveRejected"]
    /\ UNCHANGED <<appVars, featureVars, expPage, docs, shop, search, auth, dash>>

InitBudget ==
    /\ AppStart /\ user = Null
    /\ calls = [i \in Invocations |-> NoCall] /\ img = NoImage
    /\ cache = EmptyCache /\ catForm = NewForm
    /\ writers = [t \in Tabs |-> NoWrite] /\ lastWritten = EmptyCache
    /\ ExpensesPageAtRest /\ ShoppingListAtRest /\ SearchAtRest /\ AuthAtRest
    /\ DashboardAtRest
    /\ \E stored \in StoredBudgets : budget = BudgetCardMounted(stored)

NextBudget ==
    \/ FetchResolve
    \/ FetchReject
    \/ StartEditingBudget
    \/ \E text \in BudgetInputs : TypeBudgetAmount(text)
    \/ CancelEditingBudget
    \/ handleSaveBudget
    \/ SetDocResolve
    \/ SetDocReject

\* The budget card under typing, saving and cancelling.
SpecBudget == InitBudget /\ [][NextBudget]_vars

\* C23: a handleSaveBudget on an amount that is NaN or negative sends nothing
\* and leaves monthlyBudget and the editing mode as they were; on any other
\* amount it sends that amount and still leaves both as they were; when the
\* write succeeds monthlyBudget is that amount and editing has ended; when it
\* fails monthlyBudget and the editing mode are as they were.
C23_SaveBudgetValidates ==
    [][ LET typed == parseFloat(budget.newBudgetAmount)
            invalid == isNaN(typed) \/ typed[1] < 0
            kept == /\ budget'.monthlyBudget = budget.monthlyBudget
                    /\ budget'.isEditingBudget = budget.isEditingBudget
                    /\ budget'.stored = budget.stored
        IN  /\ budget'.event \in {"saveInvalid", "saveIssued"} =>
                  /\ kept
                  /\ (budget'.event = "saveInvalid") = invalid
                  /\ invalid => budget'.saves = budget.saves
                  /\ ~invalid => budget'.saves = Append(budget.saves, typed[1])
            /\ budget'.event = "saveResolved" =>
                  /\ budget'.monthlyBudget = Some(Head(budget.saves))
                  /\ budget'.stored = Some(Head(budget.saves))
                  /\ ~budget'.isEditingBudget
            /\ budget'.event = "saveRejected" => kept
            /\ \A i \in 1..Len(budget'.saves) : budget'.saves[i] >= 0 ]_vars

\* An amount with a decimal was saved, and then a negative amount was refused.
C23_Witness ==
    /\ budget # Null
    /\ budget.event = "saveInvalid"
    /\ budget.toast = "Invalid Amount"
    /\ budget.newBudgetAmount = "-0.5"
    /\ budget.isEditingBudget
    /\ budget.monthlyBudget = Some(25)
    /\ budget.stored = Some(25)
    /\ budget.saves = <<>>

\* C29 as stated: for an image of positive width and height, both edges of
\* the canvas resizeAndCompressImage draws on are at least 1.
C29_CanvasNeverEmpty ==
    (img.pc = "sized" /\ img.width >= 1 /\ img.height >= 1) =>
        (img.canvasWidth >= 1 /\ img.canvasHeight >= 1)

\* ------------------------------------------------------ the shopping list
\* ShoppingListPage (src/app/(app)/shopping-list/page.tsx) of a signed-in
\* user: the shoppingListItems collection, the items state its snapshot
\* listener keeps, and the AI suggestion loop.

MaxItems == 2

\* String.prototype.trim, for blanks.
RECURSIVE TrimStart(_)
TrimStart(s) == IF Len(s) > 0 /\ SubSeq(s, 1, 1) = " " THEN TrimStart(SubSeq(s, 2, Len(s))) ELSE s
RECURSIVE TrimEnd(_)
TrimEnd(s) ==
    IF Len(s) > 0 /\ SubSeq(s, Len(s), Len(s)) = " " THEN TrimEnd(SubSeq(s, 1, Len(s) - 1)) ELSE s
Trim(s) == TrimEnd(TrimStart(s))

\* What is typed into the item-name input, the names of the past purchases
\* offered next to it, and the lists the AI flow replies with.
TypedItemNames == {" ", "milk "}
PastPurchaseNames == {"Milk"}
SuggestedItemLists == {<<"Eggs", "eggs">>, <<"MILK">>}

ShoppingListMounted ==
    [docs |-> {}, items |-> {}, nextId |-> 1, aiPc |-> "idle", aiItems |-> {},
     suggestedItems |-> <<>>, aiIdx |-> 0]

\* items.find(i => i.name.toLowerCase() === name.toLowerCase() && !i.isPurchased)
ExistingItem(items, name) ==
    {i \in items : toLowerCase(i.name) = toLowerCase(name) /\ ~i.isPurchased}

\* addDoc(collection(db, "shoppingListItems"), {...newItem, ...})
AddedItem(name) == [id |-> shop.nextId, name |-> name, isPurchased |-> FALSE]

\* onSnapshot's callback: items becomes the collection's documents.
ShopSnapshot ==
    /\ shop.items # shop.docs
    /\ shop' = [shop EXCEPT !.items = shop.docs]
    /\ UNCHANGED <<appVars, featureVars, expPage, docs, budget, search, auth, dash>>

\* handleAddItemFromSuggestion on one of the past purchases offered; an
\* unpurchased item of that name in items ends it with a toast.
handleAddItemFromSuggestion(suggestedName) ==
    /\ shop.nextId <= MaxItems
    /\ ExistingItem(shop.items, suggestedName) = {}
    /\ shop' = [shop EXCEPT !.docs = @ \cup {AddedItem(suggestedName)}, !.nextId = @ + 1]
    /\ UNCHANGED <<appVars, featureVars, expPage, docs, budget, search, auth, dash>>

\* handleAddUntrackedItem on the typed text: nothing for a blank text, a toast
\* for a name items holds unpurchased, otherwise the trimmed name is added.
handleAddUntrackedItem(newItemNameInput) ==
    /\ shop.nextId <= MaxItems
    /\ Trim(newItemNameInput) # ""
    /\ ExistingItem(shop.items, Trim(newItemNameInput)) = {}
    /\ shop' = [shop EXCEPT !.docs = @ \cup {AddedItem(Trim(newItemNameInput))},
                    !.nextId = @ + 1]
    /\ UNCHANGED <<appVars, featureVars, expPage, docs, budget, search, auth, dash>>

\* handleToggleItemPurchased on a row: the document gets the opposite of what
\* items holds for it (updateDoc fails on a document that is gone).
handleToggleItemPurchased ==
    /\ \E item \in shop.items :
          /\ \E d \in shop.docs : d.id = item.id
          /\ shop' = [shop EXCEPT !.docs =
                         {IF d.id = item.id THEN [d EXCEPT !.isPurchased = ~item.isPurchased]
                          ELSE d : d \in @}]
    /\ shop' # shop
    /\ UNCHANGED <<appVars, featureVars, expPage, docs, budget, search, auth, dash>>

handleRemoveItem ==
    /\ \E item \in shop.items :
          /\ \E d \in shop.docs : d.id = item.id
          /\ shop' = [shop EXCEPT !.docs = {d \in @ : d.id # item.id}]
    /\ UNCHANGED <<appVars, featureVars, expPage, docs, budget, search, auth, dash>>

\* handleGetAISuggestions up to the flow's reply: the loop that follows works
\* on the reply and on the items of the render the button was clicked in.
handleGetAISuggestions ==
    /\ shop.aiPc = "idle"
    /\ shop.nextId <= MaxItems
    /\ \E reply \in SuggestedItemLists :
          shop' = [shop EXCEPT !.aiPc = "adding", !.aiItems = shop.items,
                       !.suggestedItems = reply, !.aiIdx = 1]
    /\ UNCHANGED <<appVars, featureVars, expPage, docs, budget, search, auth, dash>>

\* One turn of the loop over result.suggestedItems: the name is added unless
\* the clicked render's items hold it unpurchased. After the last turn the
\* handler ends.
AiSuggestionTurn ==
    /\ shop.aiPc = "adding"
    /\ LET name == shop.suggestedItems[shop.aiIdx]
           adds == ExistingItem(shop.aiItems, name) = {}
           last == shop.aiIdx = Len(shop.suggestedItems)
       IN  /\ adds => shop.nextId <= MaxItems
           /\ shop' = [shop EXCEPT
                         !.docs = IF adds THEN @ \cup {AddedItem(name)} ELSE @,
                         !.nextId = IF adds THEN @ + 1 ELSE @,
                         !.aiIdx = IF last THEN 0 ELSE @ + 1,
                         !.aiPc = IF last THEN "idle" ELSE @,
                         !.aiItems = IF last THEN {} ELSE @,
                         !.suggestedItems = IF last THEN <<>> ELSE @]
    /\ UNCHANGED <<appVars, featureVars, expPage, docs, budget, search, auth, dash>>

\* An addDoc of the loop fails: the catch ends the handler.
AiSuggestionFail ==
    /\ shop.aiPc = "adding"
    /\ shop' = [shop EXCEPT !.aiPc = "idle", !.aiIdx = 0, !.aiItems = {},
                    !.suggestedItems = <<>>]
    /\ UNCHANGED <<appVars, featureVars, expPage, docs, budget, search, auth, dash>>

InitShopping ==
    /\ AppStart /\ user = Null
    /\ calls = [i \in Invocations |-> NoCall] /\ img = NoImage
    /\ cache = EmptyCache /\ catForm = NewForm
    /\ writers = [t \in Tabs |-> NoWrite] /\ lastWritten = EmptyCache
    /\ ExpensesPageAtRest /\ BudgetAtRest /\ SearchAtRest /\ AuthAtRest
    /\ DashboardAtRest
    /\ shop = ShoppingListMounted

NextShopping ==
    \/ ShopSnapshot
    \/ \E name \in PastPurchaseNames : handleAddItemFromSuggestion(name)
    \/ \E text \in TypedItemNames : handleAddUntrackedItem(text)
    \/ handleToggleItemPurchased
    \/ handleRemoveItem
    \/ handleGetAISuggestions
    \/ AiSuggestionTurn
    \/ AiSuggestionFail

\* The shopping list under adds, toggles, removals and AI suggestions.
SpecShopping == InitShopping /\ [][NextShopping]_vars

\* C25 as stated: the shopping list never holds two unpurchased items whose
\* names are equal ignoring case.
C25_NoDuplicateActiveItems ==
    shop # Null =>
        \A a, b \in shop.items :
            (a.id # b.id /\ ~a.isPurchased /\ ~b.isPurchased) =>
                toLowerCase(a.name) # toLowerCase(b.name)

\* ------------------------------------------------------ the debounced search
\* The past-purchase search next to the item-name input of ShoppingListPage
\* (lines 94-145); ExpenseForm's (expense-form.tsx lines 171-213) is built the
\* same way. Every change of the input is numbered, so that what is shown can
\* be told from what was typed later.

MaxEdits == 3

SearchTexts == {"", "m ", "mi", "eg"}
PastExpenseNames == {"Milk", "Eggs"}

\* matchedExpenses: the expenses whose name contains the term, ignoring case.
MatchedExpenses(term) ==
    {n \in PastExpenseNames : Includes(toLowerCase(n), toLowerCase(term))}

SearchMounted ==
    [input |-> "", edit |-> 0, timer |-> TRUE, inFlight |-> {},
     shown |-> [edit |-> 0, term |-> "", suggestions |-> {}]]

\* onChange of the input: the effect's cleanup clears the timer of the text
\* before, the effect sets one for the new text.
TypeItemName(text) ==
    /\ search.edit < MaxEdits
    /\ text # search.input
    /\ search' = [search EXCEPT !.input = text, !.edit = @ + 1, !.timer = TRUE]
    /\ UNCHANGED <<appVars, featureVars, expPage, docs, budget, shop, auth, dash>>

\* 500 ms went by with no change: a trimmed text of two characters or more
\* is searched for (getDocs is awaited), a shorter one empties the suggestions.
DebounceTimerFires ==
    /\ search.timer
    /\ search' =
          IF Len(Trim(search.input)) > 1
          THEN [search EXCEPT !.timer = FALSE,
                    !.inFlight = @ \cup {[edit |-> search.edit, term |-> search.input]}]
          ELSE [search EXCEPT !.timer = FALSE,
                    !.shown = [edit |-> search.edit, term |-> search.input,
                               suggestions |-> {}]]
    /\ UNCHANGED <<appVars, featureVars, expPage, docs, budget, shop, auth, dash>>

\* A getDocs returns: the matches of the term it was started for are shown.
SearchReply ==
    /\ \E s \in search.inFlight :
          search' = [search EXCEPT !.inFlight = @ \ {s},
                         !.shown = [edit |-> s.edit, term |-> s.term,
                                    suggestions |-> MatchedExpenses(s.term)]]
    /\ UNCHANGED <<appVars, featureVars, expPage, docs, budget, shop, auth, dash>>

\* A getDocs fails: the catch empties the suggestions.
SearchFail ==
    /\ \E s \in search.inFlight :
          search' = [search EXCEPT !.inFlight = @ \ {s},
                         !.shown = [edit |-> s.edit, term |-> s.term, suggestions |-> {}]]
    /\ UNCHANGED <<appVars, featureVars, expPage, docs, budget, shop, auth, dash>>

InitSearch ==
    /\ AppStart /\ user = Null
    /\ calls = [i \in Invocations |-> NoCall] /\ img = NoImage
    /\ cache = EmptyCache /\ catForm = NewForm
    /\ writers = [t \in Tabs |-> NoWrite] /\ lastWritten = EmptyCache
    /\ ExpensesPageAtRest /\ BudgetAtRest /\ ShoppingListAtRest /\ AuthAtRest
    /\ DashboardAtRest
    /\ search = SearchMounted

NextSearch ==
    \/ \E text \in SearchTexts : TypeItemName(text)
    \/ DebounceTimerFires
    \/ SearchReply
    \/ SearchFail

\* The item-name input under typing, the debounce timer and search replies.
SpecSearch == InitSearch /\ [][NextSearch]_vars

\* C26 as stated: a search is started only by the timer of the text the input
\* holds, and only for a trimmed text longer than one character; and what is
\* shown (suggestions, or the emptied list) for a text is never replaced by
\* the outcome of a search started for a text typed before it.
C26_SuggestionsOfLatestText ==
    [][ /\ \A s \in search'.inFlight \ search.inFlight :
              /\ search.timer
              /\ s.term = search.input /\ s.edit = search.edit
              /\ Len(Trim(s.term)) > 1
        /\ search'.shown.edit >= search.shown.edit ]_vars

\* ------------------------------------------------------ the two layouts
\* AuthProvider (contexts/auth-context.tsx), AppLayout around the protected
\* pages and AuthLayout around the login page. fbUser is Firebase's current
\* user, which onAuthStateChanged reports to the provider; route is the page
\* the router is on, pendingNav a router.push not yet completed.

MaxHops == 3
AuthUsers == {"u1", "u2"}
AppRoutes == {"/dashboard", "/expenses"}
AuthRoutes == {"/auth/login", "/auth/signup"}
Routes == AppRoutes \cup AuthRoutes

\* The layout a route is drawn in.
Layout(route) == IF route \in AppRoutes THEN "AppLayout" ELSE "AuthLayout"

\* What is on screen: the provider's loader while it is loading; under
\* AppLayout its spinner or its children; under AuthLayout its "Loading..."
\* or its children.
Render(route, u, loading) ==
    IF loading THEN "Loading authentication..."
    ELSE IF Layout(route) = "AppLayout"
         THEN IF loading \/ u = Null THEN "spinner" ELSE "appChildren"
         ELSE IF loading \/ u # Null THEN "Loading..." ELSE "authChildren"

\* The layout whose effect calls router.push when it runs for (u, loading),
\* and where it pushes to. While the provider is loading no layout is mounted.
Redirecting(route, u, loading) ==
    IF loading THEN {}
    ELSE IF Layout(route) = "AppLayout"
         THEN IF ~loading /\ u = Null THEN {"AppLayout"} ELSE {}
         ELSE IF ~loading /\ u # Null THEN {"AuthLayout"} ELSE {}
PushTarget(layout) == IF layout = "AppLayout" THEN "/auth/login" ELSE "/dashboard"

\* AppLayout drawing its children whenever the provider has loaded.
AppLayoutRenderedUnguarded(a) ==
    [a EXCEPT !.shown = IF a.loading THEN "Loading authentication..."
                        ELSE IF Layout(a.route) = "AppLayout" THEN "appChildren"
                        ELSE Render(a.route, a.user, a.loading)]
\* The screen after a render.
Rendered(a) == [a EXCEPT !.shown = Render(a.route, a.user, a.loading)]

\* A render followed by the mounted layout's effect.
RenderedWithEffect(a) ==
    LET by == Redirecting(a.route, a.user, a.loading) IN
    [Rendered(a) EXCEPT
        !.redirects = by,
        !.pendingNav = IF by = {} THEN @ ELSE Some(PushTarget(CHOOSE l \in by : TRUE)),
        !.hops = IF by = {} \/ @ >= MaxHops THEN @ ELSE @ + 1]

AuthProviderMounted(route, fb) ==
    [fbUser |-> fb, user |-> Null, loading |-> TRUE, route |-> route,
     pendingNav |-> Null, shown |-> "Loading authentication...", redirects |-> {},
     hops |-> 0, error |-> Null]

\* onAuthStateChanged's callback: setUser(currentUser), setLoading(false).
OnAuthStateChanged ==
    /\ auth.loading \/ auth.user # auth.fbUser
    /\ auth' = RenderedWithEffect(
                  [auth EXCEPT !.user = auth.fbUser, !.loading = FALSE, !.hops = 0])
    /\ UNCHANGED <<appVars, featureVars, expPage, docs, budget, shop, search, dash>>

\* onAuthStateChanged's error callback: setLoading(false).
OnAuthStateError ==
    /\ auth.loading
    /\ auth' = RenderedWithEffect(
                  [auth EXCEPT !.loading = FALSE,
                       !.error = Some("Failed to initialize authentication state.")])
    /\ UNCHANGED <<appVars, featureVars, expPage, docs, budget, shop, search, dash>>

\* Somebody signs in, on the login form or in another tab.
FirebaseSignIn(u) ==
    /\ auth.fbUser = Null
    /\ auth' = [auth EXCEPT !.fbUser = Some(u)]
    /\ UNCHANGED <<appVars, featureVars, expPage, docs, budget, shop, search, dash>>

\* The user signs out in another tab.
FirebaseSignOut ==
    /\ auth.fbUser # Null
    /\ auth' = [auth EXCEPT !.fbUser = Null]
    /\ UNCHANGED <<appVars, featureVars, expPage, docs, budget, shop, search, dash>>

\* The provider's signOut, from the user menu of the protected pages: after
\* firebaseSignOut, setUser(null) and router.push('/auth/login').
signOut ==
    /\ auth.shown = "appChildren"
    /\ auth' = RenderedWithEffect(
                  [auth EXCEPT !.fbUser = Null, !.user = Null,
                       !.pendingNav = Some("/auth/login"), !.hops = 0])
    /\ UNCHANGED <<appVars, featureVars, expPage, docs, budget, shop, search, dash>>

\* firebaseSignOut fails: setError, and nothing else.
signOutFails ==
    /\ auth.shown = "appChildren"
    /\ auth.error # Some("Failed to sign out.")
    /\ auth' = [auth EXCEPT !.error = Some("Failed to sign out."), !.redirects = {}]
    /\ UNCHANGED <<appVars, featureVars, expPage, docs, budget, shop, search, dash>>

\* A link of the sidebar, or the link between the login and sign-up pages:
\* the layout stays mounted.
LinkClicked(route) ==
    /\ auth.shown \in {"appChildren", "authChildren"}
    /\ route # auth.route /\ Layout(route) = Layout(auth.route)
    /\ auth' = [auth EXCEPT !.route = route, !.redirects = {}]
    /\ UNCHANGED <<appVars, featureVars, expPage, docs, budget, shop, search, dash>>

\* A router.push completes: under another layout that layout mounts and its
\* effect runs.
NavigationCompletes ==
    /\ auth.pendingNav # Null
    /\ auth' =
          IF Layout(auth.pendingNav[1]) = Layout(auth.route)
          THEN [auth EXCEPT !.route = auth.pendingNav[1], !.pendingNav = Null,
                    !.redirects = {}]
          ELSE RenderedWithEffect(
                   [auth EXCEPT !.route = auth.pendingNav[1], !.pendingNav = Null])
    /\ UNCHANGED <<appVars, featureVars, expPage, docs, budget, shop, search, dash>>

\* The browser loads a page of the application: the provider starts over.
PageLoad(route) ==
    /\ auth' = AuthProviderMounted(route, auth.fbUser)
    /\ auth' # auth
    /\ UNCHANGED <<appVars, featureVars, expPage, docs, budget, shop, search, dash>>

InitAuth ==
    /\ AppStart /\ user = Null
    /\ calls = [i \in Invocations |-> NoCall] /\ img = NoImage
    /\ cache = EmptyCache /\ catForm = NewForm
    /\ writers = [t \in Tabs |-> NoWrite] /\ lastWritten = EmptyCache
    /\ ExpensesPageAtRest /\ BudgetAtRest /\ ShoppingListAtRest /\ SearchAtRest
    /\ DashboardAtRest
    /\ \E route \in Routes, fb \in {Null} \cup {Some(u) : u \in AuthUsers} :
          auth = AuthProviderMounted(route, fb)

NextAuth ==
    \/ OnAuthStateChanged
    \/ OnAuthStateError
    \/ \E u \in AuthUsers : FirebaseSignIn(u)
    \/ FirebaseSignOut
    \/ signOut
    \/ signOutFails
    \/ \E route \in Routes : LinkClicked(route)
    \/ NavigationCompletes
    \/ \E route \in Routes : PageLoad(route)

\* The provider and the two layouts under sign-in, sign-out and navigation.
SpecAuth == InitAuth /\ [][NextAuth]_vars

\* C27: the protected pages are on screen only when the provider has loaded
\* and holds a user; AppLayout's effect pushes to the login page exactly when
\* it runs with loading false and no user, so that on a protected route with
\* no user a navigation to the login page is under way; the two layouts never
\* push in the same step, and never push back and forth for the same user.
C27_ProtectedPagesNeedUser ==
    auth # Null =>
        /\ auth.shown = "appChildren" => (~auth.loading /\ auth.user # Null)
        /\ "AppLayout" \in auth.redirects =>
              (~auth.loading /\ auth.user = Null /\ auth.pendingNav = Some("/auth/login"))
        /\ (auth.route \in AppRoutes /\ ~auth.loading /\ auth.user = Null) =>
              auth.pendingNav = Some("/auth/login")
        /\ Cardinality(auth.redirects) <= 1
        /\ auth.hops <= 1

\* A visitor opened a protected page without being signed in, was sent to the
\* login page by AppLayout, and sees the login form.
C27_Witness ==
    /\ auth # Null
    /\ auth.route = "/auth/login"
    /\ auth.shown = "authChildren"
    /\ auth.hops = 1
    /\ auth.user = Null /\ ~auth.loading
    /\ auth.pendingNav = Null

\* ------------------------------------------------------ the dashboard's totals
\* processExpensesForCategoryChart and calculateCurrentMonthTotalExpenses
\* (src/app/(app)/dashboard/page.tsx lines 31-76) and the effect that runs both
\* on effectiveExpenses (lines 202-216). Prices are in tenths of the currency
\* unit; "now" is Today.

MaxListed == 2

DaysInMonth(y, m) ==
    IF m = 2 THEN (IF y % 4 = 0 /\ (y % 100 # 0 \/ y % 400 = 0) THEN 29 ELSE 28)
    ELSE IF m \in {4, 6, 9, 11} THEN 30 ELSE 31

\* date-fns parseISO on a calendar date "yyyy-MM-dd": the date, or an Invalid
\* Date (Null here) when the text is no such date.
parseISO(s) ==
    IF /\ Len(s) = 10
       /\ \A i \in {1, 2, 3, 4, 6, 7, 9, 10} : IsDigit(CharAt(s, i))
       /\ CharAt(s, 5) = "-" /\ CharAt(s, 8) = "-"
    THEN LET y == DigitsValue(s, 1, 5)
             m == DigitsValue(s, 6, 8)
             d == DigitsValue(s, 9, 11)
         IN  IF m \in 1..12 /\ d >= 1 /\ d <= DaysInMonth(y, m)
             THEN Some([year |-> y, month |-> m, day |-> d])
             ELSE Null
    ELSE Null

\* expenseDate >= startOfMonth(now) && expenseDate <= endOfMonth(now); every
\* comparison with an Invalid Date is false.
InCurrentMonth(expenseDate) ==
    LET now == parseISO(Today)[1] IN
    /\ expenseDate # Null
    /\ expenseDate[1].year = now.year
    /\ expenseDate[1].month = now.month

\* typeof expense.date === 'string', then the test of the month. A date that
\* is no string is Null.
CountsThisMonth(expense) ==
    expense.date # Null /\ InCurrentMonth(parseISO(expense.date[1]))

\* JavaScript values the totals can hold: a number, or a string.
JsNumber(n) == [type |-> "number", n |-> n, s |-> ""]
JsString(s) == [type |-> "string", n |-> 0, s |-> s]

\* categoryTotals[key] of the object literal {}: the own property if there is
\* one, else what Object.prototype has under that name.
OwnIndex(entries, key) == {i \in 1..Len(entries) : entries[i].name = key}
CategoryTotal(entries, key) ==
    IF OwnIndex(entries, key) # {}
    THEN Some(entries[CHOOSE i \in OwnIndex(entries, key) : TRUE].value)
    ELSE IF InheritedProperty(key) # Null THEN Some(JsString(InheritedProperty(key)[1]))
    ELSE Null

\* (v || 0) + price: undefined, 0 and "" count as 0; a string is concatenated
\* with the price's text.
OrZeroPlus(v, price) ==
    IF v = Null THEN JsNumber(price)
    ELSE IF v[1].type = "number" THEN JsNumber(v[1].n + price)
    ELSE IF v[1].s = "" THEN JsNumber(price)
    ELSE JsString(v[1].s \o NumberToString(price))

\* categoryTotals[expense.category] = ...: an own property is overwritten in
\* place, a new one is appended (Object.entries lists them in this order).
Assigned(entries, key, value) ==
    IF OwnIndex(entries, key) # {}
    THEN [i \in 1..Len(entries) |->
            IF entries[i].name = key THEN [name |-> key, value |-> value] ELSE entries[i]]
    ELSE Append(entries, [name |-> key, value |-> value])

\* processExpensesForCategoryChart: the entries of categoryTotals after the
\* forEach (name and value; the fill colour is left out).
RECURSIVE processExpensesForCategoryChart(_)
processExpensesForCategoryChart(list) ==
    IF list = <<>> THEN <<>>
    ELSE LET before == processExpensesForCategoryChart(SubSeq(list, 1, Len(list) - 1))
             expense == list[Len(list)]
         IN  IF CountsThisMonth(expense)
             THEN Assigned(before, expense.category,
                           OrZeroPlus(CategoryTotal(before, expense.category), expense.price))
             ELSE before

RECURSIVE calculateCurrentMonthTotalExpenses(_)
calculateCurrentMonthTotalExpenses(list) ==
    IF list = <<>> THEN 0
    ELSE calculateCurrentMonthTotalExpenses(SubSeq(list, 1, Len(list) - 1))
            + (IF CountsThisMonth(list[Len(list)])
               THEN list[Len(list)].price ELSE 0)

\* The expenses a snapshot may deliver.
DashCategories == {"Food", "Other", "constructor"}
DashPrices == {1, 2, 22}
DashDates == {Null, Some("2025-06-15"), Some("2025-05-31"), Some("2025-06-31")}
DashExpenses ==
    [category : DashCategories, price : DashPrices, date : DashDates]
DashLists ==
    UNION {[1..n -> DashExpenses] : n \in 0..MaxListed}

\* The snapshot's expenses have become effectiveExpenses.
DashboardLoaded(list) ==
    [effectiveExpenses |-> Some(list), expensesByCategory |-> <<>>,
     currentMonthTotalExpenses |-> Null]

\* The effect on effectiveExpenses: both aggregations are run and stored.
CalculateTotals ==
    /\ dash.currentMonthTotalExpenses = Null
    /\ dash' = [dash EXCEPT
                  !.expensesByCategory =
                      processExpensesForCategoryChart(dash.effectiveExpenses[1]),
                  !.currentMonthTotalExpenses =
                      Some(calculateCurrentMonthTotalExpenses(dash.effectiveExpenses[1]))]
    /\ UNCHANGED <<appVars, featureVars, expPage, docs, budget, shop, search, auth>>

InitDashboard ==
    /\ AppStart /\ user = Null
    /\ calls = [i \in Invocations |-> NoCall] /\ img = NoImage
    /\ cache = EmptyCache /\ catForm = NewForm
    /\ writers = [t \in Tabs |-> NoWrite] /\ lastWritten = EmptyCache
    /\ ExpensesPageAtRest /\ BudgetAtRest /\ ShoppingListAtRest /\ SearchAtRest
    /\ AuthAtRest
    /\ \E list \in DashLists : dash = DashboardLoaded(list)

NextDashboard == CalculateTotals

\* The dashboard's two aggregations on each list of expenses.
SpecDashboard == InitDashboard /\ [][NextDashboard]_vars

RECURSIVE SumOfValues(_)
SumOfValues(entries) ==
    IF entries = <<>> THEN 0
    ELSE entries[1].value.n + SumOfValues(Tail(entries))

\* The expenses of a list whose date begins with the current year and month.
RECURSIVE DatedThisMonth(_)
DatedThisMonth(list) ==
    IF list = <<>> THEN <<>>
    ELSE LET rest == DatedThisMonth(Tail(list))
             e == list[1]
         IN  IF e.date # Null /\ Len(e.date[1]) >= 7
                  /\ SubSeq(e.date[1], 1, 7) = SubSeq(Today, 1, 7)
             THEN <<e>> \o rest ELSE rest

\* C28 as stated: the values of the chart's entries are numbers that add up
\* to the month's total, no category has two entries, and both results are
\* what the expenses dated in the current month alone would give.
C28_AggregationsAgree ==
    (dash # Null /\ dash.currentMonthTotalExpenses # Null) =>
        LET entries == dash.expensesByCategory
            total == dash.currentMonthTotalExpenses[1]
        IN  /\ \A i \in 1..Len(entries) : entries[i].value.type = "number"
            /\ SumOfValues(entries) = total
            /\ \A i, j \in 1..Len(entries) : i # j => entries[i].name # entries[j].name
            /\ LET dated == DatedThisMonth(dash.effectiveExpenses[1])
               IN  /\ total = calculateCurrentMonthTotalExpenses(dated)
                   /\ entries = processExpensesForCategoryChart(dated)

====
